---------------------------- MODULE Spec2Model ----------------------------
(***************************************************************************)
(* A model of the markdown animation editor: the sectionizer               *)
(* (splitMarkdownIntoSections), the MarkdownAnimator component's state and *)
(* handlers, the streamed generation (generateMermaidDiagram) with its     *)
(* line decoder and cleanup, and the synchronous generateAnimation.        *)
(*                                                                         *)
(* Text is a sequence of units.  A unit is one character ("#", " ", BQ,    *)
(* "\n", ...) or one word that the code treats as a whole and that no      *)
(* other unit can form ("mermaid", "html", "Introduction").                *)
(***************************************************************************)
EXTENDS Integers, Sequences, FiniteSets, TLC

\* ------------------------------------------------------------------ bounds

\* Longest markdown text drawn in SpecSegment.
MaxDocLen == 7
\* Largest reading of Date.now().
MaxClock == 1
\* Async generateMermaidDiagram calls that may be suspended at once.
MaxCalls == 2
\* Longest decoded payload drawn in SpecClean.
MaxPayloadLen == 5
\* Most lines of a response stream drawn in SpecDecode.
MaxStreamLines == 2
\* Most actions the user takes in one behaviour of Spec.
MaxUserSteps == 4
\* Longest markdown text with carriage returns that is segmented.
MaxCrDocLen == 6
\* Most sentences after the topic in a body given to the synthesizer.
MaxSentences == 4
\* Most session changes whose notification is still to be delivered.
MaxNotices == 2

\* ------------------------------------------------------------ text helpers

\* null (editingSectionId, generatingMermaid) and undefined (an absent
\* optional field); both are kept apart from every text, "" included.
NULL == <<>>
Undefined == <<"undefined">>

\* The characters String.prototype.trim removes and \s matches.
IsSpace(u) == u \in {" ", "\n", "\r", "\t"}
\* The characters the regex "." does not match.
IsLineTerminator(u) == u \in {"\n", "\r"}

RECURSIVE TrimStart(_)
TrimStart(s) ==
    IF s # <<>> /\ IsSpace(Head(s)) THEN TrimStart(Tail(s)) ELSE s

RECURSIVE TrimEnd(_)
TrimEnd(s) ==
    IF s # <<>> /\ IsSpace(s[Len(s)]) THEN TrimEnd(SubSeq(s, 1, Len(s) - 1)) ELSE s

Trim(s) == TrimEnd(TrimStart(s))

\* All texts over alphabet A of length at most n.
TextsUpTo(A, n) == UNION {[1..k -> A] : k \in 0..n}

StartsWith(s, p) == Len(s) >= Len(p) /\ SubSeq(s, 1, Len(p)) = p

\* String.prototype.split on a one-unit separator: the pieces between the
\* separators, a trailing empty piece included.
RECURSIVE SplitOn(_, _, _)
SplitOn(s, sep, piece) ==
    IF s = <<>> THEN <<piece>>
    ELSE IF Head(s) = sep THEN <<piece>> \o SplitOn(Tail(s), sep, <<>>)
    ELSE SplitOn(Tail(s), sep, Append(piece, Head(s)))

\* The backquote character, which a string of this language cannot hold.
BQ == "backquote"

\* ------------------------------------------------------------- sectionizer

\* A split on "\n" alone, which leaves a "\r" before it in the line.
SplitLinesLF(s, piece) == SplitOn(s, "\n", piece)

\* markdown.split(/\r?\n/): a "\r" directly before the "\n" belongs to the
\* separator.
RECURSIVE SplitLines(_, _)
SplitLines(s, piece) ==
    IF s = <<>> THEN <<piece>>
    ELSE IF Head(s) = "\n" THEN <<piece>> \o SplitLines(Tail(s), <<>>)
    ELSE IF Head(s) = "\r" /\ Len(s) >= 2 /\ s[2] = "\n"
         THEN <<piece>> \o SplitLines(Tail(Tail(s)), <<>>)
    ELSE SplitLines(Tail(s), Append(piece, Head(s)))

\* Length of the leading run of "#".
RECURSIVE HashRun(_)
HashRun(s) ==
    IF s # <<>> /\ Head(s) = "#" THEN 1 + HashRun(Tail(s)) ELSE 0

\* Length of the leading run of whitespace.
RECURSIVE SpaceRun(_)
SpaceRun(s) ==
    IF s # <<>> /\ IsSpace(Head(s)) THEN 1 + SpaceRun(Tail(s)) ELSE 0

NoTerminator(s) == \A i \in 1..Len(s) : ~IsLineTerminator(s[i])

NoMatch == <<"no match">>

\* /^(#{1,6})\s+(.+)$/.exec(line): the second group, or NoMatch.  The hash
\* run must be the whole leading run (whitespace has to follow it); \s+ is
\* greedy and gives one character back to ".+" when nothing follows it.
HeadingMatch(line) ==
    LET h    == HashRun(line)
        rest == SubSeq(line, h + 1, Len(line))
        w    == SpaceRun(rest)
        text == SubSeq(rest, w + 1, Len(rest))
    IN  IF h < 1 \/ h > 6 \/ w < 1 THEN NoMatch
        ELSE IF text # <<>>
             THEN IF NoTerminator(text) THEN text ELSE NoMatch
        ELSE IF w >= 2 /\ ~IsLineTerminator(rest[w]) THEN <<rest[w]>>
        ELSE NoMatch

\* The template literal ${sections.length}-${Date.now()}.
SectionId(index, t) == <<index, t>>

\* A section whose heading carries a mark of the time it was made at.
NewSectionTimed(id, heading, body) ==
    [id |-> id, heading |-> IF id[2] > 0 THEN heading \o <<"a">> ELSE heading,
     body |-> body, code |-> Undefined, mermaidCode |-> Undefined]

NewSection(id, heading, body) ==
    [id |-> id, heading |-> heading, body |-> body,
     code |-> Undefined, mermaidCode |-> Undefined]

\* A pushCurrent that leaves the body as it was accumulated.
pushCurrentUntrimmed(done, current) ==
    IF current = NULL THEN done ELSE Append(done, current[1])

\* A pushCurrent that drops a section whose body is empty.
pushCurrentWithBody(done, current) ==
    IF current = NULL \/ Trim(current[1].body) = <<>> THEN done
    ELSE Append(done, [current[1] EXCEPT !.body = Trim(@)])

\* pushCurrent: the current section, if any, with its body trimmed.
pushCurrent(done, current) ==
    IF current = NULL THEN done
    ELSE Append(done, [current[1] EXCEPT !.body = Trim(@)])

\* The loop over the lines; current is <<section>> or NULL.
RECURSIVE SegmentLines(_, _, _, _)
SegmentLines(lines, done, current, t) ==
    IF lines = <<>> THEN pushCurrent(done, current)
    ELSE
      LET line == Head(lines)
          m    == HeadingMatch(line)
      IN  IF m # NoMatch
          THEN LET pushed == pushCurrent(done, current)
               IN  SegmentLines(Tail(lines), pushed,
                                <<NewSection(SectionId(Len(pushed), t), Trim(m), <<>>)>>, t)
          ELSE IF current # NULL
          THEN SegmentLines(Tail(lines), done,
                            <<[current[1] EXCEPT !.body = @ \o line \o <<"\n">>]>>, t)
          ELSE SegmentLines(Tail(lines), done,
                            <<NewSection(SectionId(Len(done), t), <<"Introduction">>,
                                         line \o <<"\n">>)>>, t)

\* splitMarkdownIntoSections(markdown), run while Date.now() reads t.
splitMarkdownIntoSections(markdown, t) ==
    SegmentLines(SplitLines(markdown, <<>>), <<>>, NULL, t)

\* ---------------------------------------------------------- stream decoder

(***************************************************************************)
(* The response stream is a text over wire units: the characters "0", "2", *)
(* ":", "x", "\r", "\n", and whole JSON texts.  A JSON text is one unit: a *)
(* chunk boundary inside it leaves an unparsable head and a tail without   *)
(* the marker, which the decoder treats exactly as it treats the boundary  *)
(* just before the unit, so boundaries between units cover every outcome.  *)
(* In the JSON texts below ' stands for the backquote.                     *)
(***************************************************************************)
Json ==
    [deltaA     |-> "{\"type\":\"text-delta\",\"textDelta\":\"A\"}",
     deltaB     |-> "{\"type\":\"text-delta\",\"textDelta\":\"B\"}",
     deltaOpen  |-> "{\"type\":\"text-delta\",\"textDelta\":\"'''mermaid\\n\"}",
     deltaClose |-> "{\"type\":\"text-delta\",\"textDelta\":\"\\n'''\"}",
     deltaEmpty |-> "{\"type\":\"text-delta\",\"textDelta\":\"\"}",
     noDelta    |-> "{\"type\":\"text-delta\"}",
     finish     |-> "{\"type\":\"finish\",\"textDelta\":\"A\"}",
     null       |-> "null",
     truncated  |-> "{\"type\":\"text-del"]

JsonObject(type, textDelta) == [kind |-> "object", type |-> type, textDelta |-> textDelta]
JsonNullValue == [kind |-> "null", type |-> "", textDelta |-> Undefined]
SyntaxError   == [kind |-> "SyntaxError", type |-> "", textDelta |-> Undefined]

\* The value of one JSON text, string escapes decoded.
JsonValue(u) ==
    CASE u = Json.deltaA     -> JsonObject("text-delta", <<"A">>)
      [] u = Json.deltaB     -> JsonObject("text-delta", <<"B">>)
      [] u = Json.deltaOpen  -> JsonObject("text-delta", <<BQ, BQ, BQ, "mermaid", "\n">>)
      [] u = Json.deltaClose -> JsonObject("text-delta", <<"\n", BQ, BQ, BQ>>)
      [] u = Json.deltaEmpty -> JsonObject("text-delta", <<>>)
      [] u = Json.noDelta    -> JsonObject("text-delta", Undefined)
      [] u = Json.finish     -> JsonObject("finish", <<"A">>)
      [] u = Json.null       -> JsonNullValue
      [] OTHER              -> SyntaxError

\* JSON.parse(text): whitespace around the one value is allowed, anything
\* else (nothing at all, a second token, a cut-off text) is a SyntaxError.
JSONParse(text) ==
    LET t == Trim(text)
    IN  IF Len(t) = 1 THEN JsonValue(t[1]) ELSE SyntaxError

\* A value in a JavaScript condition: undefined and "" are falsy.
Truthy(v) == v # Undefined /\ v # <<>>

PayloadMarker == <<"0", ":">>

\* The body of the loop over the lines of one chunk, its try/catch included:
\* a SyntaxError of JSON.parse and the TypeError of reading null.type are
\* both caught and the line is skipped.
DecodeLine(mermaidCode, line) ==
    IF StartsWith(line, PayloadMarker)
    THEN LET data == JSONParse(SubSeq(line, 3, Len(line)))
         IN  IF data.kind # "object" THEN mermaidCode
             ELSE IF data.type = "text-delta" /\ Truthy(data.textDelta)
                  THEN mermaidCode \o data.textDelta
             ELSE mermaidCode
    ELSE mermaidCode

RECURSIVE DecodeLines(_, _)
DecodeLines(mermaidCode, lines) ==
    IF lines = <<>> THEN mermaidCode
    ELSE DecodeLines(DecodeLine(mermaidCode, Head(lines)), Tail(lines))

\* One turn of the read loop on a chunk: chunk.split('\n'), then every piece
\* is decoded on its own; nothing is carried over to the next chunk.
DecodeChunk(mermaidCode, chunk) ==
    DecodeLines(mermaidCode, SplitOn(chunk, "\n", <<>>))

\* ------------------------------------------------------------------ cleanup

Fence        == <<BQ, BQ, BQ>>
FenceMermaid == <<BQ, BQ, BQ, "mermaid">>
FenceHtml    == <<BQ, BQ, BQ, "html">>

\* s.replace(/<pat>\n?/g, ''): every match, left to right, is removed with
\* the line break that directly follows it.
RECURSIVE ReplaceAll(_, _)
ReplaceAll(s, pat) ==
    IF s = <<>> THEN <<>>
    ELSE IF StartsWith(s, pat)
    THEN LET r == SubSeq(s, Len(pat) + 1, Len(s))
         IN  ReplaceAll(IF r # <<>> /\ Head(r) = "\n" THEN Tail(r) ELSE r, pat)
    ELSE <<Head(s)>> \o ReplaceAll(Tail(s), pat)

\* A cleanup that strips a fence marker at the start and at the end only.
StripEndsOnly(s) ==
    LET t == Trim(s)
        a == IF StartsWith(t, FenceMermaid) THEN SubSeq(t, 5, Len(t))
             ELSE IF StartsWith(t, Fence) THEN SubSeq(t, 4, Len(t))
             ELSE t
        b == IF Len(a) >= 3 /\ SubSeq(a, Len(a) - 2, Len(a)) = Fence
             THEN SubSeq(a, 1, Len(a) - 3) ELSE a
    IN  Trim(b)

\* generateMermaidDiagram's cleanup of the decoded payload.
CleanMermaid(s) == Trim(ReplaceAll(ReplaceAll(s, FenceMermaid), Fence))

\* handleChatSubmit's cleanup of the decoded payload.
CleanChat(s) == Trim(ReplaceAll(ReplaceAll(ReplaceAll(s, FenceMermaid), FenceHtml), Fence))

\* -------------------------------------------------------------------- state

VARIABLES
    \* MarkdownAnimator's useState cells.
    rawMarkdown, sections, editingSectionId, tempCode, generatingMermaid,
    \* The suspended generateMermaidDiagram calls: where each one waits, the
    \* sectionId and section it closed over, its local mermaidCode and what its response
    \* stream has not delivered yet.
    calls,
    \* The text the last handler step passed to alert(), or NULL.
    alerted,
    \* Whether handleParse has run.
    parsed,
    \* The user's actions so far (the model stops the user at MaxUserSteps).
    userSteps,
    \* Date.now().
    now,
    \* The decoder on its own: the stream as sent, what is still to be read,
    \* the accumulated text and whether the transport has signalled the end.
    wire, unread, decoded, streamDone,
    \* The cleanup on its own: the decoded payload and the two cleaned texts.
    payload, cleaned,
    \* AuthProvider's useState cells.
    user, loading,
    \* The auth client: the session it holds now, the getSession() promise of
    \* AuthProvider's effect, and the state changes whose notification has not
    \* been delivered to the onAuthStateChange callback yet.
    session, lookup, notices,
    \* UnifiedCanvas's useState cells (the canvas of the first section) and
    \* its suspended handleChatSubmit call.
    chat

appVars    == <<rawMarkdown, sections, editingSectionId, tempCode,
                generatingMermaid, calls, alerted, parsed, userSteps, now>>
decodeVars == <<wire, unread, decoded, streamDone>>
cleanVars  == <<payload, cleaned>>
authVars   == <<user, loading, session, lookup, notices>>
chatVars   == <<chat>>
vars       == <<appVars, decodeVars, cleanVars, authVars, chatVars>>

defaultBlankSnippet == <<"defaultBlankSnippet">>
AlertDiagramFailed  == <<"Failed to generate diagram. Please try again.">>

IdleCall ==
    [pc |-> "idle", sectionId |-> NULL, section |-> NULL,
     mermaidCode |-> <<>>, unread |-> <<>>]

InFlight(c) == calls[c].pc \in {"fetch", "read"}

\* The texts the user types into the markdown box in Spec.
AppDocs == { <<>>, <<"#", " ", "a", "\n", "#", " ", "b">> }

\* The texts the user types into the code editor in Spec.
EditorTexts == { <<>>, <<"edited">> }

\* A stream: its lines, each followed by a line break.
RECURSIVE Flatten(_)
Flatten(lines) ==
    IF lines = <<>> THEN <<>> ELSE Head(lines) \o <<"\n">> \o Flatten(Tail(lines))

LineOpen == PayloadMarker \o <<Json.deltaOpen>>
LineA    == PayloadMarker \o <<Json.deltaA>>

\* The response streams the service sends in Spec.
AppStreams == { Flatten(<<>>), Flatten(<<LineOpen, LineA>>) }

\* What awaiting fetch can give: a rejection, or a response with its ok flag
\* and its body (NULL: none).
Responses ==
    {[rejected |-> TRUE, ok |-> FALSE, body |-> NULL]}
    \cup {[rejected |-> FALSE, ok |-> FALSE, body |-> <<>>]}
    \cup {[rejected |-> FALSE, ok |-> TRUE, body |-> NULL]}
    \cup {[rejected |-> FALSE, ok |-> TRUE, body |-> <<st>>] : st \in AppStreams}

AppInit ==
    /\ rawMarkdown = <<>>
    /\ sections = <<>>
    /\ editingSectionId = NULL
    /\ tempCode = <<>>
    /\ generatingMermaid = NULL
    /\ calls = [c \in 1..MaxCalls |-> IdleCall]
    /\ alerted = NULL
    /\ parsed = FALSE
    /\ userSteps = 0
    /\ now = 0

DecodeIdle == wire = <<>> /\ unread = <<>> /\ decoded = <<>> /\ streamDone = FALSE
NotCleaned == [done |-> FALSE, mermaid |-> <<>>, chat |-> <<>>]
CleanIdle  == payload = <<>> /\ cleaned = NotCleaned

\* The session has been read and a user is present: Home renders
\* MarkdownAnimator.
SignedIn ==
    /\ user = <<"user">>
    /\ loading = FALSE
    /\ session = <<"user">>
    /\ lookup = [pc |-> "done", user |-> <<"user">>]
    /\ notices = <<>>

\* UnifiedCanvas as mounted: useState(false), useState('animation'),
\* useState(''), and no chat request under way.
ChatClosed ==
    chat = [showChat |-> FALSE, chatType |-> "animation", chatMessage |-> <<>>,
            pc |-> "idle", result |-> <<>>, unread |-> <<>>]

Init == AppInit /\ DecodeIdle /\ CleanIdle /\ SignedIn /\ ChatClosed

\* ------------------------------------------------------------ section store

SectionIds == {sections[i].id : i \in 1..Len(sections)}

\* A patch that writes the code into every section.
PatchCodeAll(prev, id, code) ==
    [i \in 1..Len(prev) |-> [prev[i] EXCEPT !.code = code]]

\* prev.map(s => s.id === id ? { ...s, code } : s)
PatchCode(prev, id, code) ==
    [i \in 1..Len(prev) |->
        IF prev[i].id = id THEN [prev[i] EXCEPT !.code = code] ELSE prev[i]]

\* A patch that adds a section for an id the store does not hold.
PatchMermaidUpsert(prev, id, mermaidCode) ==
    IF \E i \in 1..Len(prev) : prev[i].id = id
    THEN [i \in 1..Len(prev) |->
            IF prev[i].id = id THEN [prev[i] EXCEPT !.mermaidCode = mermaidCode] ELSE prev[i]]
    ELSE Append(prev, [id |-> id, heading |-> <<>>, body |-> <<>>,
                       code |-> Undefined, mermaidCode |-> mermaidCode])

\* A patch that puts the generated diagram into the other field.
PatchMermaidIntoCode(prev, id, mermaidCode) ==
    [i \in 1..Len(prev) |->
        IF prev[i].id = id THEN [prev[i] EXCEPT !.code = mermaidCode] ELSE prev[i]]

\* A patch that rebuilds the section from its parsed fields and so forgets the
\* custom content saved in the meantime.
PatchMermaidFromParsed(prev, id, mermaidCode) ==
    [i \in 1..Len(prev) |->
        IF prev[i].id = id
        THEN [NewSection(prev[i].id, prev[i].heading, prev[i].body)
                 EXCEPT !.mermaidCode = mermaidCode]
        ELSE prev[i]]

\* prev.map(s => s.id === id ? { ...s, mermaidCode } : s)
PatchMermaid(prev, id, mermaidCode) ==
    [i \in 1..Len(prev) |->
        IF prev[i].id = id THEN [prev[i] EXCEPT !.mermaidCode = mermaidCode] ELSE prev[i]]

\* sections.find(s => s.id === id), as <<section>> or <<>>.
Find(secs, id) ==
    LET hits == {i \in 1..Len(secs) : secs[i].id = id}
    IN  IF hits = {} THEN <<>>
        ELSE <<secs[CHOOSE i \in hits : \A j \in hits : i <= j]>>

\* ----------------------------------------------------------------- handlers

\* One more action of the user.
UserStep == userSteps < MaxUserSteps /\ userSteps' = userSteps + 1

\* The markdown textarea's onChange.
setRawMarkdown(v) ==
    /\ UserStep
    /\ rawMarkdown' = v
    /\ alerted' = NULL
    /\ UNCHANGED <<sections, editingSectionId, tempCode, generatingMermaid,
                   calls, parsed, now>>

\* A parse that carries the content of the old sections over by position.
handleParseMerging ==
    /\ UserStep
    /\ LET fresh == splitMarkdownIntoSections(rawMarkdown, now)
       IN  sections' = [i \in 1..Len(fresh) |->
                           IF i <= Len(sections)
                           THEN [fresh[i] EXCEPT !.code = sections[i].code,
                                                 !.mermaidCode = sections[i].mermaidCode]
                           ELSE fresh[i]]
    /\ parsed' = TRUE
    /\ alerted' = NULL
    /\ UNCHANGED <<rawMarkdown, editingSectionId, tempCode, generatingMermaid,
                   calls, now>>

handleParse ==
    /\ UserStep
    /\ sections' = splitMarkdownIntoSections(rawMarkdown, now)
    /\ parsed' = TRUE
    /\ alerted' = NULL
    /\ UNCHANGED <<rawMarkdown, editingSectionId, tempCode, generatingMermaid,
                   calls, now>>

\* Time passes.
Tick ==
    /\ now < MaxClock
    /\ now' = now + 1
    /\ UNCHANGED <<userSteps, rawMarkdown, sections, editingSectionId, tempCode,
                   generatingMermaid, calls, alerted, parsed>>

handleOpenEditor(sectionId) ==
    /\ UserStep
    /\ sectionId \in SectionIds
    /\ LET sec == Find(sections, sectionId)
       IN  tempCode' = IF sec # <<>> /\ sec[1].code # Undefined
                       THEN sec[1].code ELSE defaultBlankSnippet
    /\ editingSectionId' = sectionId
    /\ alerted' = NULL
    /\ UNCHANGED <<rawMarkdown, sections, generatingMermaid, calls, parsed, now>>

\* The editor textarea's onChange; the modal exists while editingSectionId is set.
setTempCode(v) ==
    /\ UserStep
    /\ editingSectionId # NULL
    /\ tempCode' = v
    /\ alerted' = NULL
    /\ UNCHANGED <<rawMarkdown, sections, editingSectionId, generatingMermaid,
                   calls, parsed, now>>

\* The modal's onClose (the close and Cancel buttons).
onClose ==
    /\ UserStep
    /\ editingSectionId # NULL
    /\ editingSectionId' = NULL
    /\ alerted' = NULL
    /\ UNCHANGED <<rawMarkdown, sections, tempCode, generatingMermaid, calls,
                   parsed, now>>

\* A save that leaves the editor open.
handleSaveCodeStaysOpen ==
    /\ UserStep
    /\ sections' = IF editingSectionId = NULL THEN sections
                   ELSE PatchCode(sections, editingSectionId, tempCode)
    /\ alerted' = NULL
    /\ UNCHANGED <<rawMarkdown, editingSectionId, tempCode, generatingMermaid, calls,
                   parsed, now>>

handleSaveCode ==
    /\ UserStep
    /\ IF editingSectionId = NULL
       THEN UNCHANGED <<sections, editingSectionId>>
       ELSE /\ sections' = PatchCode(sections, editingSectionId, tempCode)
            /\ editingSectionId' = NULL
    /\ alerted' = NULL
    /\ UNCHANGED <<rawMarkdown, tempCode, generatingMermaid, calls, parsed, now>>

\* --------------------------------------------------------------- generation

\* The call record a new generateMermaidDiagram call takes: the first idle one.
FreeCall == CHOOSE c \in 1..MaxCalls : ~InFlight(c) /\ \A d \in 1..c - 1 : InFlight(d)

\* The generate controls of a section are rendered for every section of the
\* store and are disabled (replaced by the spinner) only while the slot names
\* that very section.
CanTrigger(sectionId) ==
    /\ sectionId \in SectionIds
    /\ generatingMermaid # sectionId

\* generateMermaidDiagram(sectionId), up to its await of fetch.
generateMermaidDiagram(sectionId) ==
    /\ UserStep
    /\ CanTrigger(sectionId)
    /\ \E c \in 1..MaxCalls : ~InFlight(c)
    /\ Find(sections, sectionId) # <<>>
    /\ generatingMermaid' = sectionId
    /\ calls' = [calls EXCEPT ![FreeCall] =
                    [pc |-> "fetch", sectionId |-> sectionId,
                     section |-> Find(sections, sectionId),
                     mermaidCode |-> <<>>, unread |-> <<>>]]
    /\ alerted' = NULL
    /\ UNCHANGED <<rawMarkdown, sections, editingSectionId, tempCode, parsed, now>>

\* A catch that keeps what was decoded before the failure.
CatchWritesPartial(c) ==
    /\ alerted' = AlertDiagramFailed
    /\ generatingMermaid' = NULL
    /\ sections' = [i \in 1..Len(sections) |->
                       IF sections[i].id = calls[c].sectionId
                       THEN [sections[i] EXCEPT !.mermaidCode = calls[c].mermaidCode]
                       ELSE sections[i]]
    /\ calls' = [calls EXCEPT ![c] = IdleCall]
    /\ UNCHANGED <<userSteps, rawMarkdown, editingSectionId, tempCode, parsed, now>>

\* A catch without the finally block: the slot is left as it is.
CatchWithoutFinally(c) ==
    /\ alerted' = AlertDiagramFailed
    /\ calls' = [calls EXCEPT ![c] = IdleCall]
    /\ UNCHANGED <<userSteps, rawMarkdown, sections, editingSectionId, tempCode,
                   generatingMermaid, parsed, now>>

\* catch and finally: the error is logged and alerted, the slot is cleared.
\* The local mermaidCode dies with the call.
CatchFinally(c) ==
    /\ alerted' = AlertDiagramFailed
    /\ generatingMermaid' = NULL
    /\ calls' = [calls EXCEPT ![c] = IdleCall]
    /\ UNCHANGED <<userSteps, rawMarkdown, sections, editingSectionId, tempCode, parsed, now>>

\* The end of the try block and finally: cleanup, the write to the section
\* the call was started for, the slot cleared.
Finish(c) ==
    /\ sections' = PatchMermaid(sections, calls[c].sectionId,
                                CleanMermaid(calls[c].mermaidCode))
    /\ generatingMermaid' = NULL
    /\ calls' = [calls EXCEPT ![c] = IdleCall]
    /\ alerted' = NULL
    /\ UNCHANGED <<userSteps, rawMarkdown, editingSectionId, tempCode, parsed, now>>

\* The awaited fetch settles: a rejection, a response that is not ok and a
\* response without a body all throw; otherwise the reader is taken.
FetchSettled(c) ==
    /\ calls[c].pc = "fetch"
    /\ \E response \in Responses :
          IF response.rejected \/ ~response.ok \/ response.body = NULL
          THEN CatchFinally(c)
          ELSE /\ calls' = [calls EXCEPT ![c].pc = "read",
                                         ![c].unread = response.body[1]]
               /\ alerted' = NULL
               /\ UNCHANGED <<userSteps, rawMarkdown, sections, editingSectionId, tempCode,
                              generatingMermaid, parsed, now>>

\* An awaited reader.read() gives the next chunk: any non-empty head of what
\* has not been delivered yet.
ReadChunk(c) ==
    /\ calls[c].pc = "read"
    /\ \E k \in 1..Len(calls[c].unread) :
          calls' = [calls EXCEPT
                      ![c].mermaidCode = DecodeChunk(@, SubSeq(calls[c].unread, 1, k)),
                      ![c].unread = SubSeq(@, k + 1, Len(@))]
    /\ alerted' = NULL
    /\ UNCHANGED <<userSteps, rawMarkdown, sections, editingSectionId, tempCode,
                   generatingMermaid, parsed, now>>

\* An awaited reader.read() gives done, after everything was delivered.
ReadDone(c) ==
    /\ calls[c].pc = "read"
    /\ calls[c].unread = <<>>
    /\ Finish(c)

\* An awaited reader.read() rejects: the connection broke.
ReadFailed(c) ==
    /\ calls[c].pc = "read"
    /\ CatchFinally(c)

\* The document generateAnimation builds from the section.
AnimationDoc(section) == <<"animation of">> \o section.heading

\* generateAnimation(sectionId): it awaits nothing, so the slot is set and
\* cleared within the one step.
generateAnimation(sectionId) ==
    /\ UserStep
    /\ CanTrigger(sectionId)
    /\ LET section == Find(sections, sectionId)
       IN  /\ section # <<>>
           /\ sections' = PatchCode(sections, sectionId, AnimationDoc(section[1]))
    /\ generatingMermaid' = NULL
    /\ alerted' = NULL
    /\ UNCHANGED <<rawMarkdown, editingSectionId, tempCode, calls, parsed, now>>

\* ------------------------------------------------------------------ preview

\* The diagram template with the markup embedded.
MermaidTemplate(mermaidCode) ==
    <<"<!doctype html>...<div class=\"mermaid\">">> \o mermaidCode
        \o <<"</div>...mermaid.initialize(...)...</html>">>

\* A preview that looks at the custom content first.
srcDocCustomFirst(mermaidCode, animationCode) ==
    IF Truthy(animationCode) THEN animationCode
    ELSE IF Truthy(mermaidCode) THEN MermaidTemplate(mermaidCode)
    ELSE defaultBlankSnippet

\* UnifiedCanvas's srcDoc.
UnifiedCanvasSrcDoc(mermaidCode, animationCode) ==
    IF Truthy(mermaidCode) THEN MermaidTemplate(mermaidCode)
    ELSE IF Truthy(animationCode) THEN animationCode
    ELSE defaultBlankSnippet

\* AnimationCanvas's srcDoc: code ?? defaultBlankSnippet.
AnimationCanvasSrcDoc(code) ==
    IF code # Undefined THEN code ELSE defaultBlankSnippet

\* The tokens of the preview iframe's sandbox attribute.
SandboxTokens == {"allow-scripts", "allow-same-origin"}

\* A sandboxed frame runs scripts only with allow-scripts.
FrameRunsScripts == "allow-scripts" \in SandboxTokens

\* The origin of the srcDoc document of a sandboxed frame: an opaque origin
\* of its own, unless allow-same-origin keeps the embedding page's origin.
FrameOrigin == IF "allow-same-origin" \in SandboxTokens THEN "host" ELSE "opaque"

\* ----------------------------------------------------------- specifications

\* Spec never touches the variables of the decoder and cleanup on their own.
AppFrame == UNCHANGED <<decodeVars, cleanVars, authVars, chatVars>>

Next ==
    \/ \E v \in AppDocs : setRawMarkdown(v) /\ AppFrame
    \/ handleParse /\ AppFrame
    \/ Tick /\ AppFrame
    \/ \E id \in SectionIds : handleOpenEditor(id) /\ AppFrame
    \/ \E v \in EditorTexts : setTempCode(v) /\ AppFrame
    \/ onClose /\ AppFrame
    \/ handleSaveCode /\ AppFrame
    \/ \E id \in SectionIds : generateMermaidDiagram(id) /\ AppFrame
    \/ \E id \in SectionIds : generateAnimation(id) /\ AppFrame
    \/ \E c \in 1..MaxCalls : FetchSettled(c) /\ AppFrame
    \/ \E c \in 1..MaxCalls : ReadChunk(c) /\ AppFrame
    \/ \E c \in 1..MaxCalls : ReadDone(c) /\ AppFrame
    \/ \E c \in 1..MaxCalls : ReadFailed(c) /\ AppFrame

Spec == Init /\ [][Next]_vars

\* ------------------------------------------------- the sectionizer, alone

\* The user has typed any text and Date.now() reads any value; nothing else
\* has happened.
InitSegment ==
    /\ rawMarkdown \in TextsUpTo({"#", " ", "a", "\n"}, MaxDocLen)
    /\ now \in 0..MaxClock
    /\ sections = <<>>
    /\ editingSectionId = NULL
    /\ tempCode = <<>>
    /\ generatingMermaid = NULL
    /\ calls = [c \in 1..MaxCalls |-> IdleCall]
    /\ alerted = NULL
    /\ parsed = FALSE
    /\ userSteps = 0
    /\ DecodeIdle
    /\ CleanIdle
    /\ SignedIn
    /\ ChatClosed

\* The first click on "Parse sections".
FirstParse == ~parsed /\ handleParse /\ AppFrame

NextSegment == FirstParse

SpecSegment == InitSegment /\ [][NextSegment]_vars

InitSegmentCR ==
    /\ rawMarkdown \in TextsUpTo({"#", " ", "a", "\r", "\n"}, MaxCrDocLen)
    /\ now \in 0..MaxClock
    /\ sections = <<>>
    /\ editingSectionId = NULL
    /\ tempCode = <<>>
    /\ generatingMermaid = NULL
    /\ calls = [c \in 1..MaxCalls |-> IdleCall]
    /\ alerted = NULL
    /\ parsed = FALSE
    /\ userSteps = 0
    /\ DecodeIdle
    /\ CleanIdle
    /\ SignedIn
    /\ ChatClosed

SpecSegmentCR == InitSegmentCR /\ [][NextSegment]_vars

\* ----------------------------------------------------- the decoder, alone

\* The lines a stream is made of: deltas, an empty and a missing delta,
\* another type, null, a truncated JSON text, another marker, a marker that
\* is not at the start, something after the JSON text, a line of a stream
\* with CRLF line ends, a blank line.
WireLines ==
    { LineA,
      PayloadMarker \o <<Json.deltaB>>,
      PayloadMarker \o <<Json.deltaEmpty>>,
      PayloadMarker \o <<Json.noDelta>>,
      PayloadMarker \o <<Json.finish>>,
      PayloadMarker \o <<Json.null>>,
      PayloadMarker \o <<Json.truncated>>,
      <<"2", ":", Json.deltaA>>,
      <<"x">> \o LineA,
      LineA \o <<"x">>,
      LineA \o <<"\r">>,
      <<>> }

\* The service sends any stream of at most MaxStreamLines lines.
InitDecode ==
    /\ AppInit
    /\ wire \in UNION {[1..n -> WireLines] : n \in 0..MaxStreamLines}
    /\ unread = Flatten(wire)
    /\ decoded = <<>>
    /\ streamDone = FALSE
    /\ CleanIdle
    /\ SignedIn
    /\ ChatClosed

\* One turn of the read loop: the transport delivers any non-empty head of
\* what is unread, and the loop body decodes it.
DecodeRead ==
    /\ ~streamDone
    /\ \E k \in 1..Len(unread) :
          /\ decoded' = DecodeChunk(decoded, SubSeq(unread, 1, k))
          /\ unread' = SubSeq(unread, k + 1, Len(unread))
    /\ UNCHANGED <<wire, streamDone, appVars, cleanVars, authVars, chatVars>>

\* The transport signals the end: the loop is left.
DecodeDone ==
    /\ ~streamDone
    /\ unread = <<>>
    /\ streamDone' = TRUE
    /\ UNCHANGED <<wire, unread, decoded, appVars, cleanVars, authVars, chatVars>>

NextDecode == DecodeRead \/ DecodeDone

SpecDecode == InitDecode /\ [][NextDecode]_vars

\* ----------------------------------------------------- the cleanup, alone

InitClean ==
    /\ AppInit
    /\ DecodeIdle
    /\ payload \in TextsUpTo({BQ, "mermaid", "html", "\n", " ", "A"}, MaxPayloadLen)
    /\ cleaned = NotCleaned
    /\ SignedIn
    /\ ChatClosed

\* Both cleanups applied to the payload.
CleanUp ==
    /\ ~cleaned.done
    /\ cleaned' = [done |-> TRUE, mermaid |-> CleanMermaid(payload),
                   chat |-> CleanChat(payload)]
    /\ UNCHANGED <<payload, appVars, decodeVars, authVars, chatVars>>

NextClean == CleanUp

SpecClean == InitClean /\ [][NextClean]_vars

\* ------------------------------------------------- the heuristic synthesizer

(***************************************************************************)
(* The synthesizer works on the characters of the body: a text is a        *)
(* sequence of one-character strings.  The keywords of the classification: *)
(***************************************************************************)
\* The keywords the synthesizer looks for, letter by letter.
Kw ==
    [ workflow       |-> <<"w", "o", "r", "k", "f", "l", "o", "w">>,
      process        |-> <<"p", "r", "o", "c", "e", "s", "s">>,
      step           |-> <<"s", "t", "e", "p">>,
      component      |-> <<"c", "o", "m", "p", "o", "n", "e", "n", "t">>,
      system         |-> <<"s", "y", "s", "t", "e", "m">>,
      architecture   |-> <<"a", "r", "c", "h", "i", "t", "e", "c", "t", "u", "r", "e">>,
      compare        |-> <<"c", "o", "m", "p", "a", "r", "e">>,
      versus         |-> <<"v", "e", "r", "s", "u", "s">>,
      difference     |-> <<"d", "i", "f", "f", "e", "r", "e", "n", "c", "e">>,
      first          |-> <<"f", "i", "r", "s", "t">>,
      initially      |-> <<"i", "n", "i", "t", "i", "a", "l", "l", "y">>,
      then           |-> <<"t", "h", "e", "n">>,
      next           |-> <<"n", "e", "x", "t">>,
      finally        |-> <<"f", "i", "n", "a", "l", "l", "y">>,
      complete       |-> <<"c", "o", "m", "p", "l", "e", "t", "e">>,
      evaluate       |-> <<"e", "v", "a", "l", "u", "a", "t", "e">>,
      assess         |-> <<"a", "s", "s", "e", "s", "s">>,
      hardware       |-> <<"h", "a", "r", "d", "w", "a", "r", "e">>,
      software       |-> <<"s", "o", "f", "t", "w", "a", "r", "e">>,
      interface      |-> <<"i", "n", "t", "e", "r", "f", "a", "c", "e">>,
      data           |-> <<"d", "a", "t", "a">>,
      security       |-> <<"s", "e", "c", "u", "r", "i", "t", "y">>,
      performance    |-> <<"p", "e", "r", "f", "o", "r", "m", "a", "n", "c", "e">>,
      advantage      |-> <<"a", "d", "v", "a", "n", "t", "a", "g", "e">>,
      benefit        |-> <<"b", "e", "n", "e", "f", "i", "t">>,
      disadvantage   |-> <<"d", "i", "s", "a", "d", "v", "a", "n", "t", "a", "g", "e">>,
      limitation     |-> <<"l", "i", "m", "i", "t", "a", "t", "i", "o", "n">>,
      contrast       |-> <<"c", "o", "n", "t", "r", "a", "s", "t">>,
      important      |-> <<"i", "m", "p", "o", "r", "t", "a", "n", "t">>,
      key            |-> <<"k", "e", "y">>,
      challenge      |-> <<"c", "h", "a", "l", "l", "e", "n", "g", "e">>,
      difficulty     |-> <<"d", "i", "f", "f", "i", "c", "u", "l", "t", "y">>,
      solution       |-> <<"s", "o", "l", "u", "t", "i", "o", "n">>,
      approach       |-> <<"a", "p", "p", "r", "o", "a", "c", "h">>,
      requirement    |-> <<"r", "e", "q", "u", "i", "r", "e", "m", "e", "n", "t">>,
      need           |-> <<"n", "e", "e", "d">>,
      implementation |-> <<"i", "m", "p", "l", "e", "m", "e", "n", "t", "a", "t", "i", "o", "n">>,
      deploy         |-> <<"d", "e", "p", "l", "o", "y">> ]

\* String.prototype.toLowerCase, on the letters the bodies are made of.
LowerChar(u) ==
    CASE u = "W" -> "w"
      [] u = "F" -> "f"
      [] u = "X" -> "x"
      [] OTHER   -> u

ToLowerCase(s) == [i \in 1..Len(s) |-> LowerChar(s[i])]

\* String.prototype.includes.
Includes(s, w) == \E i \in 1..Len(s) - Len(w) + 1 : SubSeq(s, i, i + Len(w) - 1) = w

\* The characters of the class [.!?].
IsTerminal(u) == u \in {".", "!", "?"}

\* Length of the leading run of sentence terminators.
RECURSIVE TerminalRun(_)
TerminalRun(s) ==
    IF s # <<>> /\ IsTerminal(Head(s)) THEN 1 + TerminalRun(Tail(s)) ELSE 0

\* Position of the first sentence terminator, 0 if there is none.
FirstTerminal(s) ==
    LET at == {i \in 1..Len(s) : IsTerminal(s[i])}
    IN  IF at = {} THEN 0 ELSE CHOOSE i \in at : \A j \in at : i <= j

\* body.split(/[.!?]+/): the pieces between the runs of terminators, empty
\* pieces at the ends included.
RECURSIVE SplitSentences(_)
SplitSentences(s) ==
    LET i == FirstTerminal(s)
    IN  IF i = 0 THEN <<s>>
        ELSE LET rest == SubSeq(s, i, Len(s))
             IN  <<SubSeq(s, 1, i - 1)>>
                 \o SplitSentences(SubSeq(rest, TerminalRun(rest) + 1, Len(rest)))

\* filter(s => s.trim().length > min)
RECURSIVE LongerThan(_, _)
LongerThan(pieces, min) ==
    IF pieces = <<>> THEN <<>>
    ELSE (IF Len(Trim(Head(pieces))) > min THEN <<Head(pieces)>> ELSE <<>>)
         \o LongerThan(Tail(pieces), min)

\* slice(0, n)
Slice(seq, n) == SubSeq(seq, 1, IF Len(seq) < n THEN Len(seq) ELSE n)

\* substring(0, n)
Substring(s, n) == SubSeq(s, 1, IF Len(s) < n THEN Len(s) ELSE n)

Ellipsis == <<".", ".", ".">>

\* The nodes of a diagram: A, C and B1, B2, ...; NoNode where a line names none.
NodeA    == <<"A", 0>>
NodeC    == <<"C", 0>>
NodeB(i) == <<"B", i>>
NoNode   == <<"", 0>>

\* The lines of the markup.  A node line declares "to" with its label; an
\* edge line names "from" and declares "to" with its label; a style line
\* gives "to" its colours.
HeaderLine(text)               == [kind |-> "header", from |-> NoNode, arrow |-> "", to |-> NoNode, label |-> <<text>>]
NodeLine(node, label)          == [kind |-> "node", from |-> NoNode, arrow |-> "", to |-> node, label |-> label]
EdgeLine(from, arrow, to, label) == [kind |-> "edge", from |-> from, arrow |-> arrow, to |-> to, label |-> label]
StyleLine(node, colours)       == [kind |-> "style", from |-> NoNode, arrow |-> "", to |-> node, label |-> <<colours>>]
BlankLine                      == [kind |-> "blank", from |-> NoNode, arrow |-> "", to |-> NoNode, label |-> <<>>]

\* clean.substring(0, n) + (clean.length > n ? '...' : '')
CutLabel(clean, n) == Substring(clean, n) \o (IF Len(clean) > n THEN Ellipsis ELSE <<>>)

\* The label of a step of the workflow diagram.
WorkflowLabel(s) ==
    LET clean == Trim(s)
    IN  IF Includes(clean, Kw.first) \/ Includes(clean, Kw.initially) THEN <<"Initial Setup">>
        ELSE IF Includes(clean, Kw.then) \/ Includes(clean, Kw.next) THEN <<"Main Process">>
        ELSE IF Includes(clean, Kw.finally) \/ Includes(clean, Kw.complete) THEN <<"Finalization">>
        ELSE IF Includes(clean, Kw.evaluate) \/ Includes(clean, Kw.assess) THEN <<"Evaluation">>
        ELSE CutLabel(clean, 20)

\* The label of a component of the architecture diagram.
ComponentLabel(s) ==
    LET clean == Trim(s)
    IN  IF Includes(clean, Kw.hardware) THEN <<"Hardware">>
        ELSE IF Includes(clean, Kw.software) THEN <<"Software">>
        ELSE IF Includes(clean, Kw.interface) THEN <<"Interface">>
        ELSE IF Includes(clean, Kw.data) THEN <<"Data Layer">>
        ELSE IF Includes(clean, Kw.security) THEN <<"Security">>
        ELSE IF Includes(clean, Kw.performance) THEN <<"Performance">>
        ELSE CutLabel(clean, 15)

\* The label of a point of the comparison diagram.
PointLabel(s) ==
    LET clean == Trim(s)
    IN  IF Includes(clean, Kw.advantage) \/ Includes(clean, Kw.benefit) THEN <<"Advantages">>
        ELSE IF Includes(clean, Kw.disadvantage) \/ Includes(clean, Kw.limitation) THEN <<"Limitations">>
        ELSE IF Includes(clean, Kw.difference) \/ Includes(clean, Kw.contrast) THEN <<"Key Differences">>
        ELSE CutLabel(clean, 15)

\* The label of a concept of the default diagram.
ConceptLabel(s) ==
    LET clean == Trim(s)
    IN  IF Includes(clean, Kw.important) \/ Includes(clean, Kw.key) THEN <<"Key Points">>
        ELSE IF Includes(clean, Kw.benefit) \/ Includes(clean, Kw.advantage) THEN <<"Benefits">>
        ELSE IF Includes(clean, Kw.challenge) \/ Includes(clean, Kw.difficulty) THEN <<"Challenges">>
        ELSE IF Includes(clean, Kw.solution) \/ Includes(clean, Kw.approach) THEN <<"Solutions">>
        ELSE IF Includes(clean, Kw.requirement) \/ Includes(clean, Kw.need) THEN <<"Requirements">>
        ELSE IF Includes(clean, Kw.implementation) \/ Includes(clean, Kw.deploy) THEN <<"Implementation">>
        ELSE CutLabel(clean, 20)

\* forEach((x, index) => summary += A arrow B(index + 1)[x])
FanOut(labels, arrow) ==
    [i \in 1..Len(labels) |-> EdgeLine(NodeA, arrow, NodeB(i), labels[i])]

\* for (i = 1; i <= n; i++) summary += style B(i) colours
StyleSteps(n, colours) == [i \in 1..n |-> StyleLine(NodeB(i), colours)]

\* A first rule that looks for the word 'workflow' alone.
IsWorkflowWordOnly(content) == Includes(content, Kw.workflow)

IsWorkflow(content) ==
    Includes(content, Kw.workflow) \/ Includes(content, Kw.process) \/ Includes(content, Kw.step)
IsArchitecture(content) ==
    Includes(content, Kw.component) \/ Includes(content, Kw.system) \/ Includes(content, Kw.architecture)
IsComparison(content) ==
    Includes(content, Kw.compare) \/ Includes(content, Kw.versus) \/ Includes(content, Kw.difference)

\* The diagram of the first variant, before the styling.
SummaryDiagram(section) ==
    LET content == ToLowerCase(section.body)
        pieces  == SplitSentences(section.body)
    IN  IF IsWorkflow(content)
        THEN LET sentences == LongerThan(pieces, 20)
                 steps == [i \in 1..Len(Slice(sentences, 4)) |-> WorkflowLabel(sentences[i])]
             IN  <<HeaderLine("flowchart TD"), NodeLine(NodeA, section.heading)>>
                 \o FanOut(steps, "-->")
                 \o <<EdgeLine(NodeB(Len(steps)), "-->", NodeC, <<"Complete">>)>>
        ELSE IF IsArchitecture(content)
        THEN LET sentences == LongerThan(pieces, 15)
                 components == [i \in 1..Len(Slice(sentences, 4)) |-> ComponentLabel(sentences[i])]
             IN  <<HeaderLine("graph TB"), NodeLine(NodeA, section.heading)>>
                 \o FanOut(components, "---")
        ELSE IF IsComparison(content)
        THEN LET sentences == LongerThan(pieces, 15)
                 points == [i \in 1..Len(Slice(sentences, 3)) |-> PointLabel(sentences[i])]
             IN  <<HeaderLine("graph LR"), NodeLine(NodeA, section.heading)>>
                 \o FanOut(points, "-->")
        ELSE LET sentences == LongerThan(pieces, 20)
                 concepts == [i \in 1..Len(Slice(sentences, 3)) |-> ConceptLabel(sentences[i])]
             IN  <<HeaderLine("flowchart TD"), NodeLine(NodeA, section.heading)>>
                 \o FanOut(concepts, "-->")

\* The styling the first variant adds.
SummaryStyling(section) ==
    LET content == ToLowerCase(section.body)
    IN  <<BlankLine, StyleLine(NodeA, "blue")>>
        \o (IF Includes(content, Kw.workflow) \/ Includes(content, Kw.process)
            THEN <<StyleLine(NodeC, "green")>> \o StyleSteps(4, "yellow")
            ELSE IF Includes(content, Kw.component) \/ Includes(content, Kw.system)
            THEN StyleSteps(4, "purple")
            ELSE StyleSteps(3, "yellow"))

\* The markup the first variant of generateMermaidDiagram writes.
summary(section) == SummaryDiagram(section) \o SummaryStyling(section)

\* step.trim().substring(0, n) + (step.length > n ? '...' : ''): the later
\* variant measures the sentence before trimming it.
CleanCut(s, n) == Substring(Trim(s), n) \o (IF Len(s) > n THEN Ellipsis ELSE <<>>)

\* split(/[.!?]+/).filter(s => s.trim().length > min).slice(0, n), each cut to budget
CutLabels(body, min, n, budget) ==
    LET kept == Slice(LongerThan(SplitSentences(body), min), n)
    IN  [i \in 1..Len(kept) |-> CleanCut(kept[i], budget)]

\* The markup the later variant of generateMermaidDiagram writes.
laterMermaidCode(section) ==
    LET content == ToLowerCase(section.body)
    IN  IF IsWorkflow(content)
        THEN LET steps == CutLabels(section.body, 10, 6, 30)
             IN  <<HeaderLine("flowchart TD"), NodeLine(NodeA, section.heading)>>
                 \o FanOut(steps, "-->")
                 \o <<EdgeLine(NodeB(Len(steps)), "-->", NodeC, <<"Complete">>),
                      BlankLine, StyleLine(NodeA, "blue"), StyleLine(NodeC, "green")>>
                 \o StyleSteps(Len(steps), "yellow")
        ELSE IF IsArchitecture(content)
        THEN LET parts == CutLabels(section.body, 8, 5, 25)
             IN  <<HeaderLine("graph TB"), NodeLine(NodeA, section.heading)>>
                 \o FanOut(parts, "---")
                 \o <<BlankLine, StyleLine(NodeA, "blue")>>
                 \o StyleSteps(Len(parts), "purple")
        ELSE IF IsComparison(content)
        THEN LET concepts == CutLabels(section.body, 10, 4, 20)
             IN  <<HeaderLine("graph LR"), NodeLine(NodeA, section.heading)>>
                 \o FanOut(concepts, "-->")
                 \o <<BlankLine, StyleLine(NodeA, "blue")>>
                 \o StyleSteps(Len(concepts), "yellow")
        ELSE LET keyPoints == CutLabels(section.body, 15, 4, 35)
             IN  <<HeaderLine("flowchart TD"), NodeLine(NodeA, section.heading)>>
                 \o FanOut(keyPoints, "-->")
                 \o <<BlankLine, StyleLine(NodeA, "blue")>>
                 \o StyleSteps(Len(keyPoints), "yellow")

\* A synthesizer that yields to the renderer with the slot still set.
generateMermaidDiagramYielding(sectionId) ==
    /\ CanTrigger(sectionId)
    /\ LET section == Find(sections, sectionId)
       IN  /\ section # <<>>
           /\ sections' = PatchMermaid(sections, sectionId, summary(section[1]))
    /\ generatingMermaid' = sectionId
    /\ alerted' = NULL
    /\ UNCHANGED <<rawMarkdown, editingSectionId, tempCode, calls, parsed, now, userSteps>>

\* The first variant of generateMermaidDiagram.  It awaits nothing: the slot
\* is set, the markup written and the slot cleared before React renders.
generateMermaidDiagramHeuristic(sectionId) ==
    /\ CanTrigger(sectionId)
    /\ LET section == Find(sections, sectionId)
       IN  /\ section # <<>>
           /\ sections' = PatchMermaid(sections, sectionId, summary(section[1]))
    /\ generatingMermaid' = NULL
    /\ alerted' = NULL
    /\ UNCHANGED <<rawMarkdown, editingSectionId, tempCode, calls, parsed, now, userSteps>>

\* The later variant of generateMermaidDiagram; it awaits nothing either.
generateMermaidDiagramLater(sectionId) ==
    /\ CanTrigger(sectionId)
    /\ LET section == Find(sections, sectionId)
       IN  /\ section # <<>>
           /\ sections' = PatchMermaid(sections, sectionId, laterMermaidCode(section[1]))
    /\ generatingMermaid' = NULL
    /\ alerted' = NULL
    /\ UNCHANGED <<rawMarkdown, editingSectionId, tempCode, calls, parsed, now, userSteps>>

\* ------------------------------------------------ the synthesizer, alone

\* n letters that belong to no keyword.
Xs(n) == [i \in 1..n |-> "x"]

RECURSIVE JoinSentences(_)
JoinSentences(ss) ==
    IF ss = <<>> THEN <<>> ELSE Head(ss) \o <<".">> \o JoinSentences(Tail(ss))

\* The bodies given to the synthesizer: a first sentence that names the
\* topic, if any, then at most MaxSentences sentences.  The sentences have
\* lengths on both sides of every threshold and budget; one has a space in
\* front, one has a label keyword.
SynthBodies ==
    LET Topics ==
            { <<>>,
            <<"W", "o", "r", "k", "f", "l", "o", "w">>,
            <<"s", "y", "s", "t", "e", "m", " ", "s", "t", "e", "p">>,
            <<"v", "e", "r", "s", "u", "s", " ", "s", "y", "s", "t", "e", "m">>,
            <<"c", "o", "m", "p", "a", "r", "e", " ", "w", "o", "r", "k", "f", "l", "o", "w">>,
            <<"v", "e", "r", "s", "u", "s">> }
        Sentences == { Xs(11), Xs(21), <<" ">> \o Xs(30), Xs(31), Kw.first \o Xs(16) }
    IN  { (IF topic = <<>> THEN <<>> ELSE topic \o <<"!", "?">>) \o JoinSentences(ss) :
            topic \in Topics, ss \in TextsUpTo(Sentences, MaxSentences) }

\* The user has typed one section, a heading and a body, and parsed it.
InitSynth ==
    /\ \E body \in SynthBodies :
        /\ rawMarkdown = <<"#", " ", "T", "\n">> \o body
        /\ sections = <<NewSection(SectionId(0, 0), <<"T">>, Trim(body))>>
    /\ now = 0
    /\ editingSectionId = NULL
    /\ tempCode = <<>>
    /\ generatingMermaid = NULL
    /\ calls = [c \in 1..MaxCalls |-> IdleCall]
    /\ alerted = NULL
    /\ parsed = TRUE
    /\ userSteps = 1
    /\ DecodeIdle
    /\ CleanIdle
    /\ SignedIn
    /\ ChatClosed

NextSynth ==
    \/ \E id \in SectionIds : generateMermaidDiagramHeuristic(id) /\ AppFrame
    \/ \E id \in SectionIds : generateMermaidDiagramLater(id) /\ AppFrame

SpecSynth == InitSynth /\ [][NextSynth]_vars

\* ------------------------------------------ the two shapes of a response

(***************************************************************************)
(* One variant of generateMermaidDiagram reads the response as a stream of *)
(* lines, another reads it as one JSON value.  The service answers a       *)
(* request with the text of a diagram in one of the two shapes.            *)
(***************************************************************************)

\* JSON.stringify of a string, without the quotes: the line break is escaped.
JsonEscape(text) == [i \in 1..Len(text) |-> IF text[i] = "\n" THEN "\\n" ELSE text[i]]

\* The inverse, as JSON.parse reads a string.
JsonUnescape(text) == [i \in 1..Len(text) |-> IF text[i] = "\\n" THEN "\n" ELSE text[i]]

MessageOpen == <<"{\"message\":\"">>
ContentOpen == <<"{\"content\":\"">>
ObjectClose == <<"\"}">>

\* The non-streamed bodies that carry a text.
JsonMessage(text) == MessageOpen \o JsonEscape(text) \o ObjectClose
JsonContent(text) == ContentOpen \o JsonEscape(text) \o ObjectClose

\* The streamed body that carries the fragments fr (JSON texts of deltas).
StreamOf(fr) == Flatten([i \in 1..Len(fr) |-> PayloadMarker \o <<fr[i]>>])

\* The text a sequence of fragments carries.
RECURSIVE TextOf(_)
TextOf(fr) ==
    IF fr = <<>> THEN <<>> ELSE JsonValue(Head(fr)).textDelta \o TextOf(Tail(fr))

\* await response.json(): the object, or the SyntaxError it rejects with.
ResponseJson(body) ==
    LET n == Len(body)
        inner == SubSeq(body, 2, n - 1)
        wellFormed == /\ n >= 2
                      /\ SubSeq(body, n, n) = ObjectClose
                      /\ \A i \in 1..Len(inner) :
                            ~IsLineTerminator(inner[i]) /\ inner[i] \notin {"{", "}", "\""}
    IN  IF wellFormed /\ StartsWith(body, MessageOpen)
        THEN [kind |-> "object", message |-> JsonUnescape(inner), content |-> Undefined]
        ELSE IF wellFormed /\ StartsWith(body, ContentOpen)
        THEN [kind |-> "object", message |-> Undefined, content |-> JsonUnescape(inner)]
        ELSE [kind |-> "SyntaxError", message |-> Undefined, content |-> Undefined]

\* data.message || data.content || ''
MessageOrContent(data) ==
    IF Truthy(data.message) THEN data.message
    ELSE IF Truthy(data.content) THEN data.content
    ELSE <<>>

\* The streamed variant: the awaited fetch gives the response the service
\* sent, and its reader is taken.
StreamSettled(c) ==
    /\ calls[c].pc = "fetch"
    /\ calls' = [calls EXCEPT ![c].pc = "read", ![c].unread = unread]
    /\ alerted' = NULL
    /\ UNCHANGED <<userSteps, rawMarkdown, sections, editingSectionId, tempCode,
                   generatingMermaid, parsed, now>>

\* The JSON variant: the awaited fetch gives the response the service sent,
\* response.json() is awaited, and message or content is written as it is.
JsonSettled(c) ==
    /\ calls[c].pc = "fetch"
    /\ LET data == ResponseJson(unread)
       IN  IF data.kind # "object" THEN CatchFinally(c)
           ELSE /\ sections' = PatchMermaid(sections, calls[c].sectionId,
                                            MessageOrContent(data))
                /\ generatingMermaid' = NULL
                /\ calls' = [calls EXCEPT ![c] = IdleCall]
                /\ alerted' = NULL
                /\ UNCHANGED <<userSteps, rawMarkdown, editingSectionId, tempCode,
                               parsed, now>>

\* The user has parsed the empty text; the service will answer a request with
\* payload, sent either as a stream or as one JSON value.
InitShapes ==
    /\ rawMarkdown = <<>>
    /\ sections = splitMarkdownIntoSections(<<>>, 0)
    /\ now = 0
    /\ editingSectionId = NULL
    /\ tempCode = <<>>
    /\ generatingMermaid = NULL
    /\ calls = [c \in 1..MaxCalls |-> IdleCall]
    /\ alerted = NULL
    /\ parsed = TRUE
    /\ userSteps = 1
    /\ \E fr \in TextsUpTo({Json.deltaA, Json.deltaB, Json.deltaOpen, Json.deltaClose}, MaxStreamLines) :
          /\ payload = TextOf(fr)
          /\ \/ wire = [i \in 1..Len(fr) |-> PayloadMarker \o <<fr[i]>>] /\ unread = StreamOf(fr)
             \/ wire = <<JsonMessage(payload)>> /\ unread = JsonMessage(payload)
             \/ wire = <<JsonContent(payload)>> /\ unread = JsonContent(payload)
    /\ decoded = <<>>
    /\ streamDone = FALSE
    /\ cleaned = NotCleaned
    /\ SignedIn
    /\ ChatClosed

NextShapes ==
    \/ \E id \in SectionIds : generateMermaidDiagram(id) /\ AppFrame
    \/ \E c \in 1..MaxCalls : StreamSettled(c) /\ AppFrame
    \/ \E c \in 1..MaxCalls : JsonSettled(c) /\ AppFrame
    \/ \E c \in 1..MaxCalls : ReadChunk(c) /\ AppFrame
    \/ \E c \in 1..MaxCalls : ReadDone(c) /\ AppFrame

SpecShapes == InitShapes /\ [][NextShapes]_vars

\* ---------------------------------------------------------- the auth gate

Users == { <<"user">> }

\* A Home that renders the editor whatever the session is.
HomeWithoutGate == "editor"

\* What Home renders.
Home ==
    IF loading THEN "loading"
    ELSE IF user = NULL THEN "sign-in"
    ELSE "editor"

\* setUser(u); setLoading(false), and what follows from the next render: when
\* Home stops rendering MarkdownAnimator its state cells are gone, and the
\* next mount starts from their initial values.
SetUser(u) ==
    /\ user' = u
    /\ loading' = FALSE
    /\ IF Home = "editor" /\ u = NULL
       THEN /\ rawMarkdown' = <<>>
            /\ sections' = <<>>
            /\ editingSectionId' = NULL
            /\ tempCode' = <<>>
            /\ generatingMermaid' = NULL
            /\ parsed' = FALSE
            /\ alerted' = NULL
       ELSE UNCHANGED <<rawMarkdown, sections, editingSectionId, tempCode,
                        generatingMermaid, parsed, alerted>>
    /\ UNCHANGED <<calls, userSteps, now, decodeVars, cleanVars, chatVars>>

\* The session of the auth client changes: a sign-in, a sign-out, here or in
\* another tab.  The client will notify the onAuthStateChange callback.
SessionChanges(u) ==
    /\ u # session
    /\ Len(notices) < MaxNotices
    /\ session' = u
    /\ notices' = Append(notices, u)
    /\ UNCHANGED <<user, loading, lookup, appVars, decodeVars, cleanVars, chatVars>>

\* supabase.auth.getSession() reads the session the client holds; its promise
\* is settled with it.
getSessionReads ==
    /\ lookup.pc = "pending"
    /\ lookup' = [pc |-> "read", user |-> session]
    /\ UNCHANGED <<user, loading, session, notices, appVars, decodeVars, cleanVars, chatVars>>

\* The then-callback of getSession(): setUser(data.session?.user ?? null);
\* setLoading(false).
getSessionResolved ==
    /\ lookup.pc = "read"
    /\ lookup' = [lookup EXCEPT !.pc = "done"]
    /\ SetUser(lookup.user)
    /\ UNCHANGED <<session, notices>>

\* The onAuthStateChange callback, called with the next state change:
\* setUser(session?.user ?? null); setLoading(false).
onAuthStateChange ==
    /\ notices # <<>>
    /\ notices' = Tail(notices)
    /\ SetUser(Head(notices))
    /\ UNCHANGED <<session, lookup>>

\* The page is loaded: the effect has subscribed and called getSession(), and
\* nothing has been delivered yet.
InitAuth ==
    /\ AppInit
    /\ DecodeIdle
    /\ CleanIdle
    /\ ChatClosed
    /\ user = NULL
    /\ loading = TRUE
    /\ session \in Users \cup {NULL}
    /\ lookup = [pc |-> "pending", user |-> NULL]
    /\ notices = <<>>

\* The handlers of MarkdownAnimator exist while Home renders it.
NextAuth ==
    \/ \E u \in Users \cup {NULL} : SessionChanges(u)
    \/ getSessionReads
    \/ getSessionResolved
    \/ onAuthStateChange
    \/ Tick /\ AppFrame
    \/ \E v \in AppDocs : Home = "editor" /\ setRawMarkdown(v) /\ AppFrame
    \/ Home = "editor" /\ handleParse /\ AppFrame
    \/ \E id \in SectionIds : Home = "editor" /\ handleOpenEditor(id) /\ AppFrame
    \/ \E v \in EditorTexts : Home = "editor" /\ setTempCode(v) /\ AppFrame
    \/ Home = "editor" /\ handleSaveCode /\ AppFrame
    \/ \E id \in SectionIds : Home = "editor" /\ generateAnimation(id) /\ AppFrame

SpecAuth == InitAuth /\ [][NextAuth]_vars

\* ------------------------------------------------------- chat edit request

\* alert(`Mermaid diagram updated: ${result.substring(0, 100)}...`) and its
\* twin for the animation.
AlertChatUpdated(chatType, result) ==
    (IF chatType = "mermaid" THEN <<"Mermaid diagram updated: ">>
                             ELSE <<"Animation updated: ">>)
        \o Substring(result, 100) \o <<"...">>

\* Everything of the application and its surroundings that UnifiedCanvas does
\* not own, the alert and the count of the user's actions apart.
ChatFrame ==
    UNCHANGED <<rawMarkdown, sections, editingSectionId, tempCode,
                generatingMermaid, calls, parsed, now,
                decodeVars, cleanVars, authVars>>

\* 'Edit Mermaid' / 'Edit Animation': setChatType(t); setShowChat(true).  The
\* buttons are rendered when the section is not being generated and holds a
\* diagram or custom content.
EditButton(chatType) ==
    /\ UserStep
    /\ sections # <<>>
    /\ generatingMermaid # sections[1].id
    /\ Truthy(sections[1].mermaidCode) \/ Truthy(sections[1].code)
    /\ ~chat.showChat
    /\ chat' = [chat EXCEPT !.chatType = chatType, !.showChat = TRUE]
    /\ alerted' = NULL
    /\ ChatFrame

\* The textarea's onChange.
setChatMessage(v) ==
    /\ UserStep
    /\ chat.showChat
    /\ chat' = [chat EXCEPT !.chatMessage = v]
    /\ alerted' = NULL
    /\ ChatFrame

\* The close button and 'Cancel': setShowChat(false).
onCloseChat ==
    /\ UserStep
    /\ chat.showChat
    /\ chat' = [chat EXCEPT !.showChat = FALSE]
    /\ alerted' = NULL
    /\ ChatFrame

\* handleChatSubmit, up to its await of fetch; a blank message returns at
\* once.  One request of the canvas is followed at a time.
handleChatSubmit ==
    /\ UserStep
    /\ chat.showChat
    /\ chat.pc = "idle"
    /\ IF Trim(chat.chatMessage) = <<>>
       THEN chat' = chat
       ELSE chat' = [chat EXCEPT !.pc = "fetch", !.result = <<>>, !.unread = <<>>]
    /\ alerted' = NULL
    /\ ChatFrame

\* handleChatSubmit's catch: the alert; no state cell is written.
ChatCatch ==
    /\ chat' = [chat EXCEPT !.pc = "idle", !.result = <<>>, !.unread = <<>>]
    /\ alerted' = <<"Failed to process your request. Please try again.">>
    /\ UNCHANGED userSteps
    /\ ChatFrame

\* The awaited fetch settles.
ChatFetchSettled ==
    /\ chat.pc = "fetch"
    /\ \E response \in Responses :
          IF response.rejected \/ ~response.ok \/ response.body = NULL
          THEN ChatCatch
          ELSE /\ chat' = [chat EXCEPT !.pc = "read", !.unread = response.body[1]]
               /\ alerted' = NULL
               /\ UNCHANGED userSteps
               /\ ChatFrame

\* An awaited reader.read() gives a chunk: the same line decoder as the
\* diagram generation, accumulating into result.
ChatReadChunk ==
    /\ chat.pc = "read"
    /\ \E k \in 1..Len(chat.unread) :
          chat' = [chat EXCEPT
                     !.result = DecodeChunk(@, SubSeq(chat.unread, 1, k)),
                     !.unread = SubSeq(@, k + 1, Len(@))]
    /\ alerted' = NULL
    /\ UNCHANGED userSteps
    /\ ChatFrame

\* An end of the request that hands the cleaned result to the parent's store.
ChatReadDoneIntoStore ==
    /\ chat.pc = "read"
    /\ chat.unread = <<>>
    /\ chat' = [chat EXCEPT !.pc = "idle", !.result = <<>>,
                            !.chatMessage = <<>>, !.showChat = FALSE]
    /\ alerted' = AlertChatUpdated(chat.chatType, CleanChat(chat.result))
    /\ sections' = IF sections = <<>> THEN sections
                   ELSE IF chat.chatType = "mermaid"
                        THEN PatchMermaid(sections, sections[1].id, CleanChat(chat.result))
                        ELSE PatchCode(sections, sections[1].id, CleanChat(chat.result))
    /\ UNCHANGED <<userSteps, rawMarkdown, editingSectionId, tempCode,
                   generatingMermaid, calls, parsed, now,
                   decodeVars, cleanVars, authVars>>

\* An awaited reader.read() gives done: the cleanup, the alert with the head
\* of the result, setChatMessage(''), setShowChat(false).
ChatReadDone ==
    /\ chat.pc = "read"
    /\ chat.unread = <<>>
    /\ chat' = [chat EXCEPT !.pc = "idle", !.result = <<>>,
                            !.chatMessage = <<>>, !.showChat = FALSE]
    /\ alerted' = AlertChatUpdated(chat.chatType, CleanChat(chat.result))
    /\ UNCHANGED userSteps
    /\ ChatFrame

\* An awaited reader.read() rejects.
ChatReadFailed ==
    /\ chat.pc = "read"
    /\ ChatCatch

\* A parsed document whose first section holds a diagram: its canvas shows
\* the edit buttons.
InitChat ==
    /\ rawMarkdown \in AppDocs
    /\ now = 0
    /\ sections = PatchMermaid(splitMarkdownIntoSections(rawMarkdown, now),
                               SectionId(0, now), <<"A">>)
    /\ editingSectionId = NULL
    /\ tempCode = <<>>
    /\ generatingMermaid = NULL
    /\ calls = [c \in 1..MaxCalls |-> IdleCall]
    /\ alerted = NULL
    /\ parsed = TRUE
    /\ userSteps = 0
    /\ DecodeIdle
    /\ CleanIdle
    /\ SignedIn
    /\ ChatClosed

NextChat ==
    \/ \E t \in {"mermaid", "animation"} : EditButton(t)
    \/ \E v \in { <<>>, <<" ">>, <<"m">> } : setChatMessage(v)
    \/ onCloseChat
    \/ handleChatSubmit
    \/ ChatFetchSettled
    \/ ChatReadChunk
    \/ ChatReadDone
    \/ ChatReadFailed
    \/ \E id \in SectionIds : generateMermaidDiagram(id) /\ AppFrame
    \/ \E id \in SectionIds : generateAnimation(id) /\ AppFrame
    \/ \E c \in 1..MaxCalls : FetchSettled(c) /\ AppFrame
    \/ \E c \in 1..MaxCalls : ReadChunk(c) /\ AppFrame
    \/ \E c \in 1..MaxCalls : ReadDone(c) /\ AppFrame
    \/ \E c \in 1..MaxCalls : ReadFailed(c) /\ AppFrame

SpecChat == InitChat /\ [][NextChat]_vars

\* ------------------------------------------------------------ liveness

\* The environment's part in call c: the awaited fetch settles and every
\* awaited read settles (a chunk, the end, or an error).
Settle(c) == (FetchSettled(c) \/ ReadChunk(c) \/ ReadDone(c) \/ ReadFailed(c)) /\ AppFrame

\* Spec, with every awaited promise eventually settled.
LiveSpec == Spec /\ \A c \in 1..MaxCalls : WF_vars(Settle(c))

\* ------------------------------------------------------------------ claims

InFlightCalls == {c \in 1..MaxCalls : InFlight(c)}

\* C1: in every reachable state at most one generation request is in flight
\* (awaiting the response or reading its stream), whatever the user triggers.
C1_AtMostOneInFlight == Cardinality(InFlightCalls) <= 1

\* C2: triggering a generation for a section while a generation for another
\* section is in flight is a no-op: no request is issued, the slot still names
\* the first section and no content of the store changes.
C2_SecondTriggerIsNoOp ==
    [][\A id \in SectionIds :
          (/\ \E a \in InFlightCalls : calls[a].sectionId # id
           /\ generateMermaidDiagram(id) \/ generateAnimation(id))
          => UNCHANGED <<sections, generatingMermaid, calls>>]_vars

\* The decoder fed one whole line per chunk.
RECURSIVE DecodeWholeLines(_, _)
DecodeWholeLines(mermaidCode, lines) ==
    IF lines = <<>> THEN mermaidCode
    ELSE DecodeWholeLines(DecodeChunk(mermaidCode, Head(lines) \o <<"\n">>), Tail(lines))

\* C3: the decoded text does not depend on how the transport cuts the stream
\* into chunks: once the stream has ended, the text is the one the decoder
\* gives when every line arrives whole.
C3_ChunkingIndependent ==
    streamDone => decoded = DecodeWholeLines(<<>>, wire)

\* A line of the stream is a valid text-delta line: it begins with the
\* payload marker, the rest is a JSON object and its type is text-delta.
ValidDeltaLine(line) ==
    /\ StartsWith(line, PayloadMarker)
    /\ LET data == JSONParse(SubSeq(line, 3, Len(line)))
       IN  data.kind = "object" /\ data.type = "text-delta"

\* The text fragment a valid text-delta line carries ("" when it has none).
Fragment(line) ==
    LET data == JSONParse(SubSeq(line, 3, Len(line)))
    IN  IF data.textDelta = Undefined THEN <<>> ELSE data.textDelta

\* The fragments of the valid lines among lines[i], i in keep, concatenated
\* in stream order.
RECURSIVE ConcatFragments(_, _, _)
ConcatFragments(lines, keep, i) ==
    IF i > Len(lines) THEN <<>>
    ELSE (IF i \in keep /\ ValidDeltaLine(lines[i]) THEN Fragment(lines[i]) ELSE <<>>)
         \o ConcatFragments(lines, keep, i + 1)

\* C4: a line without the payload marker, with invalid JSON or of another
\* type contributes nothing to the result: whatever the decoder returns is
\* made of fragments of valid text-delta lines only.
C4_InvalidLinesContributeNothing ==
    streamDone =>
        \E keep \in SUBSET (1..Len(wire)) : decoded = ConcatFragments(wire, keep, 1)

\* C5: when the transport signals completion, the payload is exactly the
\* concatenation of the fragments of all valid text-delta lines, in arrival
\* order.
C5_AllFragmentsInOrder ==
    streamDone => decoded = ConcatFragments(wire, 1..Len(wire), 1)

HasFenceAt(s, i) == i >= 1 /\ i + 2 <= Len(s) /\ s[i] = BQ /\ s[i + 1] = BQ /\ s[i + 2] = BQ
NoFence(s) == \A i \in 1..Len(s) : ~HasFenceAt(s, i)
Trimmed(s) == s = Trim(s)

RECURSIVE Keep(_, _)
Keep(s, u) ==
    IF s = <<>> THEN <<>>
    ELSE (IF Head(s) = u THEN <<u>> ELSE <<>>) \o Keep(Tail(s), u)

RECURSIVE IsSubsequence(_, _)
IsSubsequence(a, b) ==
    IF a = <<>> THEN TRUE
    ELSE IF b = <<>> THEN FALSE
    ELSE IF Head(a) = Head(b) THEN IsSubsequence(Tail(a), Tail(b))
    ELSE IsSubsequence(a, Tail(b))

\* The payload has a fence marker neither at its start nor at its end.
FenceOnlyInside(s) ==
    LET t == Trim(s)
    IN  ~HasFenceAt(t, 1) /\ ~HasFenceAt(t, Len(t) - 2)
        /\ ~(Len(t) >= 4 /\ HasFenceAt(t, Len(t) - 3) /\ t[Len(t)] \in {"mermaid", "html"})

\* C6, as claimed: the cleanup removes fence markers and whitespace only at
\* the start and the end, so a payload whose fence markers are all in the
\* interior comes back unchanged but for the whitespace around it.
C6_InteriorFenceKept ==
    (cleaned.done /\ FenceOnlyInside(payload))
        => cleaned.mermaid = Trim(payload) /\ cleaned.chat = Trim(payload)

CleanedRight(out) ==
    /\ NoFence(out)
    /\ Trimmed(out)
    /\ IsSubsequence(out, payload)
    /\ Keep(out, "A") = Keep(payload, "A")
    /\ (Keep(payload, BQ) = <<>> => out = Trim(payload))

\* C6, amended: the cleanup removes every fence marker wherever it stands,
\* the interior included, and the whitespace at both ends: the result holds no
\* fence marker and no whitespace at its ends, it is what is left of the payload
\* (nothing added, nothing reordered, no other text lost), and a payload
\* without backquotes is only trimmed.
C6_EveryFenceRemoved ==
    cleaned.done => CleanedRight(cleaned.mermaid) /\ CleanedRight(cleaned.chat)

\* C6, witness: a payload with a fence marker between two letters was cleaned.
C6_Witness ==
    /\ cleaned.done
    /\ payload = <<"A", BQ, BQ, BQ, "A">>
    /\ cleaned.mermaid = <<"A", "A">>


\* The step that ends call c's stream: the awaited read gives done and the
\* call returns without an alert.
StreamEnds(c) ==
    /\ calls[c].pc = "read"
    /\ calls[c].unread = <<>>
    /\ calls'[c] = IdleCall
    /\ alerted' = NULL

\* The store after text was written to field mermaidCode of the sections
\* named id, everything else as it was.
OnlyMermaidWritten(id, text) ==
    /\ Len(sections') = Len(sections)
    /\ \A i \in 1..Len(sections) :
          /\ sections'[i].mermaidCode =
                IF sections[i].id = id THEN text ELSE sections[i].mermaidCode
          /\ sections'[i].code = sections[i].code
          /\ sections'[i].id = sections[i].id
          /\ sections'[i].heading = sections[i].heading
          /\ sections'[i].body = sections[i].body

\* The same for field code.
OnlyCodeWritten(id, text) ==
    /\ Len(sections') = Len(sections)
    /\ \A i \in 1..Len(sections) :
          /\ sections'[i].code = IF sections[i].id = id THEN text ELSE sections[i].code
          /\ sections'[i].mermaidCode = sections[i].mermaidCode
          /\ sections'[i].id = sections[i].id
          /\ sections'[i].heading = sections[i].heading
          /\ sections'[i].body = sections[i].body

\* C7: when a generation's stream ends, the decoded text with its fences
\* stripped is written to the target section's mermaidCode (kind diagram) or
\* to its code (kind animation), the section's other field and every other
\* section stay as they were, and the slot is cleared.
C7_StreamEndWritesTarget ==
    [][/\ \A c \in 1..MaxCalls :
             StreamEnds(c) =>
                /\ OnlyMermaidWritten(calls[c].sectionId, CleanMermaid(calls[c].mermaidCode))
                /\ generatingMermaid' = NULL
       /\ \A id \in SectionIds :
             generateAnimation(id) =>
                /\ OnlyCodeWritten(id, AnimationDoc(Find(sections, id)[1]))
                /\ generatingMermaid' = NULL]_vars

\* C7, witness: a diagram stream that began with a fence has ended and its
\* stripped text is in the section, next to the animation generated for it.
C7_Witness ==
    /\ generatingMermaid = NULL
    /\ \E i \in 1..Len(sections) :
          /\ sections[i].mermaidCode = <<"A">>
          /\ sections[i].code = AnimationDoc(sections[i])

\* The step in which call c fails: the awaited fetch rejects, its response is
\* not ok or has no body, or an awaited read rejects.
Fails(c) == InFlight(c) /\ (ReadFailed(c) \/ (FetchSettled(c) /\ calls'[c].pc # "read"))

\* A step of call c that goes on waiting.
GoesOn(c) == InFlight(c) /\ InFlight(c)' /\ calls'[c] # calls[c]

\* C8: when a generation fails, nothing is written to the store (neither at
\* the failure nor by an earlier step of that generation), the slot is cleared,
\* the error is surfaced, the attempt is idle again and no request is issued
\* in its place.
C8_FailureLeavesStore ==
    [][\A c \in 1..MaxCalls :
          /\ GoesOn(c) => sections' = sections
          /\ Fails(c) =>
                /\ sections' = sections
                /\ generatingMermaid' = NULL
                /\ alerted' = AlertDiagramFailed
                /\ calls' = [calls EXCEPT ![c] = IdleCall]]_vars

\* C8, witness: a generation has just failed; no call is in flight, the slot
\* is clear and no section of the store holds a diagram.
C8_Witness ==
    /\ alerted = AlertDiagramFailed
    /\ generatingMermaid = NULL
    /\ InFlightCalls = {}
    /\ sections # <<>>
    /\ \A i \in 1..Len(sections) : sections[i].mermaidCode = Undefined

\* C9: every started generation eventually ends and the slot is released
\* when it does, provided every awaited fetch and read settles; also when
\* the document is segmented again while the generation is in flight.
C9_SlotReleased ==
    \A c \in 1..MaxCalls : InFlight(c) ~> (~InFlight(c) /\ generatingMermaid = NULL)

\* C9, witness: a generation is in flight for a section that a new
\* segmentation has removed from the store.
C9_Witness ==
    \E c \in 1..MaxCalls : InFlight(c) /\ calls[c].sectionId \notin SectionIds

\* C10: segmenting the empty text gives no section.
C10_EmptyGivesNoSections ==
    (parsed /\ rawMarkdown = <<>>) => sections = <<>>

\* The lines of a text as a reader counts them: the empty text has none.
LinesOf(md) == IF md = <<>> THEN <<>> ELSE SplitLines(md, <<>>)

IsHeadingLine(line) == HeadingMatch(line) # NoMatch

\* The first heading line after line i, or one past the last line.
NextHeading(ls, i) ==
    LET later == {j \in i + 1..Len(ls) : IsHeadingLine(ls[j])}
    IN  IF later = {} THEN Len(ls) + 1
        ELSE CHOOSE j \in later : \A k \in later : j <= k

\* Lines a..b of ls, each with its line break.
RECURSIVE JoinLines(_, _, _)
JoinLines(ls, a, b) ==
    IF a > b THEN <<>> ELSE ls[a] \o <<"\n">> \o JoinLines(ls, a + 1, b)

Titled(heading, body) == [heading |-> heading, body |-> body]

\* One section per heading line from line i on, in source order.
RECURSIVE HeadingSections(_, _)
HeadingSections(ls, i) ==
    IF i > Len(ls) THEN <<>>
    ELSE (IF IsHeadingLine(ls[i])
          THEN <<Titled(Trim(HeadingMatch(ls[i])),
                        Trim(JoinLines(ls, i + 1, NextHeading(ls, i) - 1)))>>
          ELSE <<>>)
         \o HeadingSections(ls, i + 1)

\* What segment is to return for the lines ls.
SectionsOfLines(ls) ==
    (IF ls # <<>> /\ ~IsHeadingLine(ls[1])
     THEN <<Titled(<<"Introduction">>, Trim(JoinLines(ls, 1, NextHeading(ls, 0) - 1)))>>
     ELSE <<>>)
    \o HeadingSections(ls, 1)

\* Headings and bodies of a sequence of sections, identifiers aside.
Content(secs) == [i \in 1..Len(secs) |-> Titled(secs[i].heading, secs[i].body)]

\* C11: segment returns, in source order, an Introduction section exactly
\* when some line precedes the first heading line, then one section per
\* heading line, with the trimmed heading text and the trimmed text of the
\* lines up to the next heading line.
C11_SectionsInSourceOrder ==
    parsed => Content(sections) = SectionsOfLines(LinesOf(rawMarkdown))

\* The place in the result of the section of heading line i.
SectionOfLine(ls, i) ==
    Cardinality({j \in 1..i : IsHeadingLine(ls[j])})
        + (IF IsHeadingLine(ls[1]) THEN 0 ELSE 1)

\* C12: of two heading lines with no line between them, each has its own
\* section, one after the other, and the first one's body is empty; no
\* heading is merged or dropped.
C12_ConsecutiveHeadings ==
    parsed =>
        LET ls == SplitLines(rawMarkdown, <<>>)
        IN  \A i \in 1..Len(ls) - 1 :
               (IsHeadingLine(ls[i]) /\ IsHeadingLine(ls[i + 1])) =>
                  LET k == SectionOfLine(ls, i)
                  IN  /\ k + 1 <= Len(sections)
                      /\ sections[k].heading = Trim(HeadingMatch(ls[i]))
                      /\ sections[k].body = <<>>
                      /\ sections[k + 1].heading = Trim(HeadingMatch(ls[i + 1]))

\* C12, witness: two heading lines in a row were segmented into two sections
\* with empty bodies.
C12_Witness ==
    /\ parsed
    /\ rawMarkdown = <<"#", " ", "a", "\n", "#", " ", "a">>
    /\ Content(sections) = <<Titled(<<"a">>, <<>>), Titled(<<"a">>, <<>>)>>

NoHeadingLine(md) ==
    LET ls == SplitLines(md, <<>>) IN \A i \in 1..Len(ls) : ~IsHeadingLine(ls[i])

\* C13, as claimed: a non-empty text without heading line gives exactly one
\* section, Introduction, whose body is the whole text, trimmed, every
\* line break as it was.
C13_WholeInputKept ==
    (parsed /\ rawMarkdown # <<>> /\ NoHeadingLine(rawMarkdown)) =>
        Content(sections) = <<Titled(<<"Introduction">>, Trim(rawMarkdown))>>

\* The text with every CRLF line break replaced by LF.
RECURSIVE CrlfToLf(_)
CrlfToLf(s) ==
    IF s = <<>> THEN <<>>
    ELSE IF Head(s) = "\r" /\ Len(s) >= 2 /\ s[2] = "\n" THEN CrlfToLf(Tail(s))
    ELSE <<Head(s)>> \o CrlfToLf(Tail(s))

\* C13, amended: a non-empty text without heading line gives exactly one
\* section, Introduction, whose body is the whole text, trimmed, with every
\* interior line break kept as a line feed (a CRLF becomes LF).
C13_WholeInputWithLF ==
    (parsed /\ rawMarkdown # <<>> /\ NoHeadingLine(rawMarkdown)) =>
        Content(sections) = <<Titled(<<"Introduction">>, Trim(CrlfToLf(rawMarkdown)))>>

\* C13, witness: a text of two lines with a CRLF between them was segmented.
C13_Witness ==
    /\ parsed
    /\ rawMarkdown = <<"a", "\r", "\n", "a">>
    /\ Content(sections) = <<Titled(<<"Introduction">>, <<"a", "\n", "a">>)>>

\* The headings and bodies of the sections, one after the other.
RECURSIVE ConcatSections(_)
ConcatSections(secs) ==
    IF secs = <<>> THEN <<>>
    ELSE Head(secs).heading \o Head(secs).body \o ConcatSections(Tail(secs))

RECURSIVE WriteSections(_, _)
WriteSections(secs, i) ==
    IF i > Len(secs) THEN <<>>
    ELSE (IF i = 1 /\ secs[i].heading = <<"Introduction">> THEN <<>>
          ELSE <<"#", " ">> \o secs[i].heading \o <<"\n">>)
         \o secs[i].body \o <<"\n">> \o WriteSections(secs, i + 1)

\* No heading is empty and no body, trimmed as it is, holds a heading line
\* or a CRLF (a line that ended in a carriage return).
Rewritable(secs) ==
    \A i \in 1..Len(secs) :
        /\ secs[i].heading # <<>>
        /\ NoHeadingLine(secs[i].body)
        /\ CrlfToLf(secs[i].body) = secs[i].body

C15_SameContentAtAnyClock ==
    parsed =>
        \A t \in 0..MaxClock :
            Content(splitMarkdownIntoSections(rawMarkdown, t)) = Content(sections)

\* C15, witness: a text was segmented into two sections at a clock value
\* other than the first, and the identifiers carry that value.
C15_Witness ==
    /\ parsed
    /\ now > 0
    /\ Len(sections) = 2
    /\ sections[2].id # splitMarkdownIntoSections(rawMarkdown, 0)[2].id

\* C16: the identifiers of one segmentation differ from one another, and a
\* segmentation mints no identifier that the store held before it, also
\* when it runs at the clock reading of the one before.
C16_IdsNeverReused ==
    [][/\ \A i, j \in 1..Len(sections') : sections'[i].id = sections'[j].id => i = j
       /\ handleParse => SectionIds' \cap SectionIds = {}]_vars

\* C17: a patch whose target is not in the store (a save from the editor, the
\* end of a generation's stream) leaves the store as it is and alerts nothing.
C17_UnknownTargetNoOp ==
    [][/\ (handleSaveCode /\ editingSectionId # NULL /\ editingSectionId \notin SectionIds)
             => (sections' = sections /\ alerted' = NULL)
       /\ \A c \in 1..MaxCalls :
             (StreamEnds(c) /\ calls[c].sectionId \notin SectionIds)
                => (sections' = sections /\ alerted' = NULL)]_vars

\* C17, witness: a generation has decoded text and is about to end, and the
\* section it was started for is no longer in the store.
C17_Witness ==
    /\ sections # <<>>
    /\ \E c \in 1..MaxCalls :
          /\ calls[c].pc = "read"
          /\ calls[c].unread = <<>>
          /\ calls[c].mermaidCode # <<>>
          /\ calls[c].sectionId \notin SectionIds

\* At most one section of the store has the identifier.
OneTarget(id) == Cardinality({i \in 1..Len(sections) : sections[i].id = id}) <= 1

\* C18: every patch (a save from the editor, a generated animation, a
\* generated diagram) changes one field of one section: the number and order
\* of the sections, every id, heading and body, the target's other field and
\* all other sections stay as they were.
C18_PatchChangesOneField ==
    [][/\ (handleSaveCode /\ editingSectionId # NULL)
             => (OneTarget(editingSectionId) /\ OnlyCodeWritten(editingSectionId, tempCode))
       /\ \A id \in SectionIds :
             generateAnimation(id) =>
                (OneTarget(id) /\ OnlyCodeWritten(id, sections'[CHOOSE i \in 1..Len(sections) :
                                                                  sections[i].id = id].code))
       /\ \A c \in 1..MaxCalls :
             StreamEnds(c) =>
                /\ OneTarget(calls[c].sectionId)
                /\ \E text \in {CleanMermaid(calls[c].mermaidCode)} :
                      OnlyMermaidWritten(calls[c].sectionId, text)]_vars

\* C18, witness: the editor's text was saved into one of two sections and
\* the other one has no custom content.
C18_Witness ==
    /\ Len(sections) = 2
    /\ editingSectionId = NULL
    /\ \E i, j \in 1..2 :
          /\ sections[i].code = defaultBlankSnippet
          /\ sections[j].code = Undefined
          /\ sections[i].mermaidCode = Undefined

\* C19: after Parse the store is the fresh segmentation of the text, and no
\* section of it has a diagram or custom content, whatever the store held.
C19_ParseReplacesAll ==
    [][handleParse =>
          /\ Content(sections') = Content(splitMarkdownIntoSections(rawMarkdown, now))
          /\ \A i \in 1..Len(sections') :
                sections'[i].code = Undefined /\ sections'[i].mermaidCode = Undefined]_vars

\* C19, witness: the editor still shows the custom content that section
\* <<0, 0>> had when it was opened, and the store, parsed again since, holds
\* the section without it.
C19_Witness ==
    /\ tempCode = <<"animation of", "Introduction">>
    /\ editingSectionId = <<0, 0>>
    /\ Len(sections) = 1
    /\ sections[1].id = <<0, 0>>
    /\ sections[1].code = Undefined

\* "Present", read as: the field is set ("set"), or the field is set and
\* not the empty text ("non-empty").
Present(reading, v) ==
    IF reading = "set" THEN v # Undefined ELSE v # Undefined /\ v # <<>>

\* The preview the claim gives a section, for a reading of "present".
PreviewByPrecedence(reading, mermaidCode, code) ==
    IF Present(reading, mermaidCode) THEN MermaidTemplate(mermaidCode)
    ELSE IF Present(reading, code) THEN code
    ELSE defaultBlankSnippet

\* Both components follow the precedence under the reading; AnimationCanvas
\* is given no diagram markup.
PreviewsFollow(reading) ==
    \A i \in 1..Len(sections) :
        /\ UnifiedCanvasSrcDoc(sections[i].mermaidCode, sections[i].code)
              = PreviewByPrecedence(reading, sections[i].mermaidCode, sections[i].code)
        /\ AnimationCanvasSrcDoc(sections[i].code)
              = PreviewByPrecedence(reading, Undefined, sections[i].code)

\* C20, as claimed: the preview of every section is the diagram template
\* when diagram markup is present, otherwise the custom content verbatim when
\* that is present, and the placeholder only when both are absent; with
\* "present" read either as set or as set and not empty.
C20_PreviewPrecedence ==
    PreviewsFollow("set") \/ PreviewsFollow("non-empty")

\* C20, amended: UnifiedCanvas follows the precedence with a field present
\* when it is a non-empty text (an empty diagram markup or custom content
\* counts as absent); AnimationCanvas, which knows no diagram, shows the
\* custom content verbatim whenever it is set, the empty text included.
C20_PrecedenceOfNonEmpty ==
    \A i \in 1..Len(sections) :
        /\ UnifiedCanvasSrcDoc(sections[i].mermaidCode, sections[i].code)
              = PreviewByPrecedence("non-empty", sections[i].mermaidCode, sections[i].code)
        /\ AnimationCanvasSrcDoc(sections[i].code)
              = PreviewByPrecedence("set", Undefined, sections[i].code)

\* C20, witness: a section holds both a diagram and custom content, and its
\* preview is the diagram template.
C20_Witness ==
    \E i \in 1..Len(sections) :
        /\ sections[i].mermaidCode = <<"A">>
        /\ sections[i].code = AnimationDoc(sections[i])
        /\ UnifiedCanvasSrcDoc(sections[i].mermaidCode, sections[i].code)
              = MermaidTemplate(<<"A">>)

\* C21: the preview frame of every section runs the scripts of its document
\* and does not give that document the origin of the hosting page.
C21_PreviewIsolated ==
    \A i \in 1..Len(sections) : FrameRunsScripts /\ FrameOrigin # "host"


\* ------------------------------------------------- claims: the synthesizer

\* The sections that carry a generated diagram.
Drawn == {i \in 1..Len(sections) : sections[i].mermaidCode # Undefined}

\* The nodes a markup declares, and the step nodes among them.
Declared(m) == {m[k].to : k \in {j \in 1..Len(m) : m[j].kind \in {"node", "edge"}}}
StepNodes(m) == {n \in Declared(m) : n[1] = "B"}

\* The nodes the edges of a markup name.
NamedInEdges(m) ==
    UNION {{m[k].from, m[k].to} : k \in {j \in 1..Len(m) : m[j].kind = "edge"}}

HasComplete(m) ==
    \E k \in 1..Len(m) :
        m[k].kind = "edge" /\ m[k].to = NodeC /\ m[k].label = <<"Complete">>

NoTopic(content) ==
    ~IsWorkflow(content) /\ ~IsArchitecture(content) /\ ~IsComparison(content)

\* C22: the diagram of a body that contains 'workflow' is a top-down flow
\* chart with a 'Complete' node and at most 4 step nodes; the diagram of a
\* body with no recognized keyword is a top-down flow chart.
C22_WorkflowShape ==
    \A i \in Drawn :
        LET m == sections[i].mermaidCode
            content == ToLowerCase(sections[i].body)
        IN  /\ Includes(content, Kw.workflow) =>
                /\ m[1] = HeaderLine("flowchart TD")
                /\ HasComplete(m)
                /\ Cardinality(StepNodes(m)) <= 4
            /\ NoTopic(content) => m[1] = HeaderLine("flowchart TD")


\* C23: every node that an edge of a generated markup names is a node the
\* markup declares, also when no sentence of the body is long enough.
C23_EdgesNameDeclared ==
    \A i \in Drawn :
        NamedInEdges(sections[i].mermaidCode) \subseteq Declared(sections[i].mermaidCode)

\* The diagram a markup is, read off its header and its terminal node.
Kind(m) ==
    IF m[1] = HeaderLine("graph TB") THEN "architecture"
    ELSE IF m[1] = HeaderLine("graph LR") THEN "comparison"
    ELSE IF m[1] = HeaderLine("flowchart TD") /\ HasComplete(m) THEN "workflow"
    ELSE IF m[1] = HeaderLine("flowchart TD") THEN "default"
    ELSE "none"

\* The first matching rule, in the order of priority.
FirstRule(content) ==
    IF \E w \in {Kw.workflow, Kw.process, Kw.step} : Includes(content, w) THEN "workflow"
    ELSE IF \E w \in {Kw.component, Kw.system, Kw.architecture} : Includes(content, w)
    THEN "architecture"
    ELSE IF \E w \in {Kw.compare, Kw.versus, Kw.difference} : Includes(content, w)
    THEN "comparison"
    ELSE "default"

\* C24: the diagram of a section is the one of the first rule, in the order
\* workflow, architecture, comparison, default, that its lower-cased body
\* matches.
C24_FirstMatchingRule ==
    \A i \in Drawn :
        Kind(sections[i].mermaidCode) = FirstRule(ToLowerCase(sections[i].body))

\* A body that matches the first rule by 'step' and the second by 'system',
\* drawn as a workflow.
C24_Witness ==
    \E i \in Drawn :
        /\ Includes(sections[i].body, Kw.step)
        /\ Includes(sections[i].body, Kw.system)
        /\ ~Includes(sections[i].body, Kw.workflow)
        /\ Kind(sections[i].mermaidCode) = "workflow"

\* C27: a generation by the synthesizer is one step that leaves the slot
\* free, starts no call and has written the diagram; no state has the slot
\* occupied or a call in flight.
C27_OneUninterruptedStep ==
    /\ [](generatingMermaid = NULL /\ \A c \in 1..MaxCalls : ~InFlight(c))
    /\ [][\A id \in SectionIds :
            (generateMermaidDiagramHeuristic(id) \/ generateMermaidDiagramLater(id))
                => /\ generatingMermaid' = NULL
                   /\ calls' = calls
                   /\ Find(sections', id)[1].mermaidCode # Undefined]_vars

\* A diagram has been generated.
C27_Witness == Drawn # {} /\ generatingMermaid = NULL

\* C29: in a workflow diagram every step node has an edge to 'Complete'.
C29_StepsConverge ==
    \A i \in Drawn :
        LET m == sections[i].mermaidCode
        IN  Kind(m) = "workflow" =>
                \A n \in StepNodes(m) :
                    \E k \in 1..Len(m) :
                        m[k].kind = "edge" /\ m[k].from = n /\ m[k].to = NodeC

\* The labels the synthesizer puts in place of a sentence with a keyword.
FixedLabels ==
    { <<"Initial Setup">>, <<"Main Process">>, <<"Finalization">>, <<"Evaluation">>,
      <<"Hardware">>, <<"Software">>, <<"Interface">>, <<"Data Layer">>,
      <<"Security">>, <<"Performance">>, <<"Advantages">>, <<"Limitations">>,
      <<"Key Differences">>, <<"Key Points">>, <<"Benefits">>, <<"Challenges">>,
      <<"Solutions">>, <<"Requirements">>, <<"Implementation">> }

\* The labels of the step nodes of a markup.
StepLabels(m) ==
    {m[k].label : k \in {j \in 1..Len(m) : m[j].kind = "edge" /\ m[j].to[1] = "B"}}

\* label is sentence, trimmed, whole or cut with the ellipsis after the cut.
LabelOf(label, sentence) ==
    LET t == Trim(sentence)
    IN  \/ label = t
        \/ /\ Len(label) >= 3
           /\ Len(t) > Len(label) - 3
           /\ label = SubSeq(t, 1, Len(label) - 3) \o Ellipsis

\* C30: a label that stands for a sentence without keyword is a sentence of
\* the body, trimmed, either whole or cut and followed by the ellipsis; the
\* ellipsis follows only a label that is shorter than the sentence.
C30_EllipsisIffCut ==
    \A i \in Drawn :
        \A label \in StepLabels(sections[i].mermaidCode) \ FixedLabels :
            \E k \in 1..Len(SplitSentences(sections[i].body)) :
                LabelOf(label, SplitSentences(sections[i].body)[k])


\* ------------------------------------------------ claims: the heading rule

\* Length of the leading run of " ".
RECURSIVE BlankRun(_)
BlankRun(s) ==
    IF s # <<>> /\ Head(s) = " " THEN 1 + BlankRun(Tail(s)) ELSE 0

\* What follows the "#" run and the spaces of a line.
TextAfterMarker(line) ==
    LET rest == SubSeq(line, HashRun(line) + 1, Len(line))
    IN  SubSeq(rest, BlankRun(rest) + 1, Len(rest))

\* 1 to 6 "#", one or more spaces, at least one character of text.
StartsSection(line) ==
    /\ HashRun(line) \in 1..6
    /\ BlankRun(SubSeq(line, HashRun(line) + 1, Len(line))) >= 1
    /\ TextAfterMarker(line) # <<>>

\* The headings of the sections that the lines ls start.
RECURSIVE HeadingsStarted(_)
HeadingsStarted(ls) ==
    IF ls = <<>> THEN <<>>
    ELSE (IF StartsSection(Head(ls)) THEN <<Trim(TextAfterMarker(Head(ls)))>> ELSE <<>>)
         \o HeadingsStarted(Tail(ls))

\* C28: the sections are started by the lines of 1 to 6 "#", one or more
\* spaces and some text, and by no other line: every other line goes into
\* the body of the current section (the Introduction, if none is open).
C28_HeadingRule ==
    parsed =>
        LET ls == SplitLines(rawMarkdown, <<>>)
        IN  [i \in 1..Len(sections) |-> sections[i].heading]
                = (IF StartsSection(ls[1]) THEN <<>> ELSE <<<<"Introduction">>>>)
                  \o HeadingsStarted(ls)


\* ------------------------------------------- claims: the response shapes

\* C25: whichever shape the service sends the text in, no generation fails
\* and what a generation writes is the text with the cleanup of the decoding
\* contract applied.
C25_SameResultBothShapes ==
    /\ alerted # AlertDiagramFailed
    /\ \A i \in 1..Len(sections) :
          sections[i].mermaidCode # Undefined
              => sections[i].mermaidCode = CleanMermaid(payload)


\* ------------------------------------------------ claims: the auth gate

\* The state cells of the editor.
editorVars == <<rawMarkdown, sections, editingSectionId, tempCode, generatingMermaid>>

\* C26: where the editor is shown, the session has been read and a user is
\* present; while the session is being read or no user is present, no step
\* parses, edits or generates.
C26_EditorOnlyWithUser ==
    /\ [](Home = "editor" => (~loading /\ user # NULL))
    /\ [][(loading \/ user = NULL) => UNCHANGED editorVars]_vars

\* A user is present and has parsed a text in the editor.
C26_Witness == Home = "editor" /\ user \in Users /\ sections # <<>>


\* -------------------------------------------------- claims: the editor

\* C31: a save with the editor open writes the editor's text to the code of
\* the section the editor names, changes nothing else of the store and
\* closes the editor; closing the editor leaves the store as it is; a save
\* with no editor open changes nothing.
C31_SaveWritesEditedSection ==
    [][/\ (handleSaveCode /\ editingSectionId # NULL)
             => /\ OnlyCodeWritten(editingSectionId, tempCode)
                /\ editingSectionId' = NULL
       /\ onClose => (sections' = sections /\ editingSectionId' = NULL)
       /\ (handleSaveCode /\ editingSectionId = NULL)
             => UNCHANGED <<sections, editingSectionId, tempCode>>]_vars

\* C31, witness: the text typed into the editor was saved into the section
\* and the editor is closed.
C31_Witness ==
    /\ editingSectionId = NULL
    /\ \E i \in 1..Len(sections) : sections[i].code = <<"edited">>


\* ------------------------------------------------- claims: overlapping work

\* C32: while some generation awaits the service or reads its stream, the
\* slot names a section whose generation is in flight; in particular the end
\* of one generation does not clear the slot under another one.
C32_SlotTracksInFlight ==
    InFlightCalls # {} =>
        /\ generatingMermaid # NULL
        /\ \E c \in InFlightCalls : calls[c].sectionId = generatingMermaid

\* The section a call was started on is no longer in the store: the document
\* was segmented again after the call read it.
Resegmented(c) ==
    \/ Find(sections, calls[c].sectionId) = <<>>
    \/ LET cur == Find(sections, calls[c].sectionId)[1]
           was == calls[c].section[1]
       IN  cur.heading # was.heading \/ cur.body # was.body

\* C33: when the document was segmented again while a generation was in
\* flight, the end of that generation's stream changes no section of the new
\* store: its result is dropped.
C33_StaleCompletionDropped ==
    [][\A c \in 1..MaxCalls :
          (StreamEnds(c) /\ Resegmented(c)) => sections' = sections]_vars

\* C34: a manual edit and a generation that overlap lose nothing of each
\* other: the end of a stream writes the diagram and keeps the custom content
\* of every section, and a save made while a generation is in flight writes
\* the custom content, keeps every diagram and leaves the generation running.
C34_NoLostUpdate ==
    [][/\ \A c \in 1..MaxCalls :
             StreamEnds(c) =>
                 /\ Len(sections') = Len(sections)
                 /\ \A i \in 1..Len(sections) :
                       /\ sections'[i].code = sections[i].code
                       /\ sections[i].id = calls[c].sectionId =>
                              sections'[i].mermaidCode =
                                  CleanMermaid(calls[c].mermaidCode)
       /\ (handleSaveCode /\ editingSectionId # NULL /\ InFlightCalls # {}) =>
             /\ OnlyCodeWritten(editingSectionId, tempCode)
             /\ calls' = calls]_vars

\* A section holds saved custom content and a generated diagram.
C34_Witness ==
    \E i \in 1..Len(sections) :
        /\ sections[i].code = defaultBlankSnippet
        /\ sections[i].mermaidCode # Undefined
        /\ InFlightCalls = {}

\* C35: when an animation generation ('Generate Animation' or 'Switch to
\* Animation') has completed for a section, the preview of that section is
\* the generated animation, whether or not the section held a diagram.
C35_PreviewIsGeneratedAnimation ==
    [][\A id \in SectionIds :
          generateAnimation(id) =>
              \A i \in 1..Len(sections) :
                  sections[i].id = id =>
                      UnifiedCanvasSrcDoc(sections'[i].mermaidCode, sections'[i].code)
                          = AnimationDoc(sections[i])]_vars

\* C36: a generation never replaces diagram markup that is not empty by the
\* empty text: when the stream ends without payload text (no text-delta line,
\* or fences only) the markup the section held is kept.
C36_EmptyResultKeepsMarkup ==
    [][\A c \in 1..MaxCalls :
          StreamEnds(c) =>
              \A i \in 1..Len(sections) :
                  Truthy(sections[i].mermaidCode) =>
                      /\ i <= Len(sections')
                      /\ sections'[i].mermaidCode # <<>>]_vars

\* C38: once the initial session lookup and every state-change notification
\* have been delivered, in whatever order, the provider's user is the user of
\* the session the auth client holds and loading is false.
C38_UserIsLatestSession ==
    (lookup.pc = "done" /\ notices = <<>>) => (user = session /\ loading = FALSE)

\* A step of the chat edit request: a button of the chat, a submit, or the
\* request moving on.
ChatStep == chat' # chat \/ handleChatSubmit

=============================================================================
